---- MODULE Spec2Model ----
(***************************************************************************)
(* Verification model of the document-generation example scripts.         *)
(*                                                                         *)
(* Part I    : p3_batch_conversion.py  thread-pool batch conversion        *)
(* Part II   : the script entry points error handling of __main__ / main() *)
(* Part III  : test_d1_golden.py       golden-file test and normalization  *)
(* Part IV   : a6_docxtpl_advanced.py  DOCX generation and PDF conversion  *)
(* Part V    : a6_docxtpl_advanced.py  the LibreOffice converter alone     *)
(* Part VI   : a1_docxtpl_basic.py, a3_images.py   render()                *)
(* Part VII  : report_pdf_generator.py main(), configuration, conversion   *)
(* Part VIII : report_pdf_generator.py watch mode                          *)
(* Part IX   : p4_combine_articles_to_pdf.py   the combined Markdown       *)
(* Part X    : a5_python_docx_only.py  the Markdown tokenizer              *)
(* Part XI   : docx tools/run_all.py   running all the examples            *)
(***************************************************************************)
EXTENDS Integers, Sequences, FiniteSets, TLC

(***************************************************************************)
(* Part I : pandoc-stack-examples/src/p3_batch_conversion.py               *)
(***************************************************************************)

VARIABLES
    exists,        \* [input name -> BOOLEAN] : (MARKDOWN_DIR / input).exists()
    pcMain,        \* position of the thread that called batch_convert_documents
    ci,            \* index of conv_config in the outer submission loop
    oi,            \* index of output_config in the inner submission loop
    queue,         \* executor work queue: submitted tasks not yet picked up (FIFO)
    fstate,        \* [task -> future state] "none" | "pending" | "running" | "finished"
    fexc,          \* [task -> exception stored in the future] ("none" if result set)
    fresult,       \* [task -> result stored in the future] (a path, or NoPath)
    calls,         \* [task -> number of subprocess.run(["pandoc", ...]) calls]
    writers,       \* set of <<output path, task>> : the tasks that passed "-o path"
    yielded,       \* set of tasks whose future as_completed has already yielded
    all_outputs,   \* the list all_outputs
    appenders,     \* the thread that performed each append to all_outputs
    raised         \* exception that escaped batch_convert_documents ("none" if none)

batchVars == <<exists, pcMain, ci, oi, queue, fstate, fexc, fresult, calls,
               writers, yielded, all_outputs, appenders, raised>>

\* Part II : the run of one script entry point.
VARIABLES
    epScript,      \* the script being run ("none" before a run)
    epPc,          \* "idle" | "call" | "after_call" | "handler" | "propagating" | "exited"
    epOutcome,     \* how the top-level operation ended: "none" | "ok" | "raise" | "failed_no_raise"
    epStatus,      \* exit status of the process (-1 while it runs)
    epPrinted,     \* the entry point's own handler printed its error message
    epUncaught     \* the exception left the entry point uncaught

entryVars == <<epScript, epPc, epOutcome, epStatus, epPrinted, epUncaught>>

\* Part III : one run of test_examples_against_golden.
VARIABLES
    envUpdateGolden, \* os.getenv("UPDATE_GOLDEN"): "<unset>" or the value set
    golden,          \* [case -> content of its golden file], Absent if no such file
    golden0,         \* the golden files as they were when the test started
    gi,              \* index in CASES of the next case of the loop
    testPc,          \* "running" | "passed" | "failed" (AssertionError) | "error"
    xmlNow,          \* the normalized XML of the case handled last
    wrote,           \* the cases whose golden file this run wrote
    compared,        \* the cases this run compared with their golden file
    sawDiff          \* a compared case differed from its golden file

goldenVars == <<envUpdateGolden, golden, golden0, gi, testPc, xmlNow, wrote,
                compared, sawDiff>>

\* Part IV : one run of main(conversion_method) of a6_docxtpl_advanced.py.
VARIABLES
    soffice,        \* one of the four libreoffice_paths exists
    msword,         \* /Applications/Microsoft Word.app exists
    pandocOk,       \* "pandoc --version" runs and exits 0
    xelatexOk,      \* "xelatex --version" runs and exits 0
    templateExists, \* DATA / "Template-OFF-V003-Jinja.docx" exists
    method,         \* the conversion_method argument
    a6Pc,           \* "generate" | "check_deps" | "convert" | "report" | "handler" | "done"
    a6Method,       \* actual_method returned by check_dependencies ("none" before)
    a6Error,        \* the exception in flight or handled: [type, msg]
    a6Exit,         \* the value main returned (-1 before it returns)
    docxFile,       \* BUILD / "out_a6_advanced.docx": "absent" | "empty" | "ok"
    pdfFile,        \* BUILD / "out_a6_advanced.pdf": "absent" | "stale" | "empty" | "fresh"
    genOk,          \* generate_docx_from_template returned normally
    convAttempted,  \* convert_docx_to_pdf was called
    pdfOk           \* convert_docx_to_pdf returned normally

a6Env == <<soffice, msword, pandocOk, xelatexOk, templateExists, method>>
a6Vars == <<a6Env, a6Pc, a6Method, a6Error, a6Exit, docxFile, pdfFile, genOk,
            convAttempted, pdfOk>>

\* Part V : one call convert_docx_to_pdf_with_libreoffice(docx_path, output_path).
VARIABLES
    loDocx,         \* what docx_path names: "absent" | "dir" | "file"
    loArg,          \* the output_path argument (NoOutputPath for None)
    loSoffice,      \* one of the four libreoffice_paths exists
    loFiles,        \* [PDF path -> "absent" | "stale" | "stale_empty" | "fresh" | "fresh_empty"]
    loPc,           \* "validate" | "find" | "run" | "check" | "returned" | "raised"
    loOutPath,      \* the local output_path once computed (NoOutputPath before)
    loExc,          \* the exception that left the function: [type, msg]
    loRet           \* the path returned (NoOutputPath if none)

loEnv == <<loDocx, loArg, loSoffice>>
loVars == <<loEnv, loFiles, loPc, loOutPath, loExc, loRet>>

\* Part VI : one call of render() of a1_docxtpl_basic.py or a3_images.py.
VARIABLES
    rdScript,       \* "a1" | "a3"
    rdTemplate,     \* TEMPLATE.exists()
    rdInput,        \* DATA.exists() (a1) or IMG.exists() (a3)
    rdTplVars,      \* the variables the template references
    rdCtxKeys,      \* the keys of ctx
    rdHasMethod,    \* get_undeclared_template_variables runs without AttributeError
    rdOut,          \* the output document: "absent" | "old" | "new"
    rdOut0,         \* the output document when render was called
    rdPc,           \* "template" | "input" | "validate" | "render" | "save" | "returned" | "raised"
    rdExc           \* type of the exception that left render ("none" if none)

rdEnv == <<rdScript, rdTemplate, rdInput, rdTplVars, rdCtxKeys, rdHasMethod, rdOut0>>
rdVars == <<rdEnv, rdOut, rdPc, rdExc>>

\* Part VII : one run of main() of _archive/report_pdf_generator.py.
VARIABLES
    argFilename,    \* args.filename: "none", a report of the directory, or "ghost"
    argWatch,       \* args.watch
    argForce,       \* args.force
    argReportsDir,  \* args.reports_dir: "none" (flag not given) or "given"
    rgDirExists,    \* the directory the run is meant to read exists
    rgYaml,         \* the YAML file: "missing" | "unreadable" | "empty" | "partial" | "complete"
    rgMd,           \* [report -> mtime of its .md file]
    rgPdf,          \* [report -> mtime of its .pdf file], 0 if there is none
    rgPc,           \* position of main
    rgConfig,       \* self.config
    rgQueue,        \* the reports convert_all_reports has still to handle
    rgCalled,       \* the reports convert_to_pdf was called for
    rgError,        \* type of the exception main's handler caught ("none")
    rgStatus,       \* exit status of the process (-1 while it runs)
    callMd,         \* current convert_to_pdf call: its md_file ("none" outside a call)
    callPdf0,       \* ... mtime of the PDF when the call began
    callAttempted,  \* ... the call went past the up-to-date check
    callTools,      \* ... number of external programs the call ran
    callWrites,     \* ... kinds of file the call wrote: "css", "html", "pdf"
    callCssError,   \* ... exception raised by generate_css_from_config ("none")
    callResult      \* ... value returned: "none" | "True" | "False"

rgEnv == <<argFilename, argWatch, argForce, argReportsDir, rgDirExists, rgYaml, rgMd>>
callVars == <<callMd, callPdf0, callAttempted, callTools, callWrites,
              callCssError, callResult>>
rgVars == <<rgEnv, rgPdf, rgPc, rgConfig, rgQueue, rgCalled, rgError, rgStatus,
            callVars>>

\* Part VIII : watch_and_convert of _archive/report_pdf_generator.py.
VARIABLES
    wExists,        \* [monitored file -> md_file.exists()]
    wMtime,         \* [monitored file -> its st_mtime]
    wLast,          \* last_modified
    wPc,            \* "sleep" | "scan" | "detected" | "converting" | "stopped"
    wIdx,           \* position of the for loop in md_files
    wCur,           \* current_mtime
    wConvStart,     \* [file -> its st_mtime when its latest conversion began], 0 if none
    wConvs,         \* [file -> number of conversions begun]
    wModDuring      \* files modified while their own conversion was running

watchVars == <<wExists, wMtime, wLast, wPc, wIdx, wCur, wConvStart, wConvs,
               wModDuring>>

\* Part IX : one call create_combined_markdown(articles_dir) of
\* p4_combine_articles_to_pdf.py.
VARIABLES
    cmFiles,        \* md_files: for each file, how its processing goes
    cmI,            \* i of the for loop, counted from 1
    cmOut,          \* combined_content
    cmPc,           \* "start" | "loop" | "returned" | "raised"
    cmSkipped       \* the indexes whose processing raised

combineVars == <<cmFiles, cmI, cmOut, cmPc, cmSkipped>>

\* Part X : one call parse_markdown(markdown_content) of a5_python_docx_only.py.
VARIABLES
    tkLines,        \* lines = markdown_content.split('\n')
    tkI,            \* i, counted from 1
    tkElements,     \* elements
    tkReached,      \* the indexes at which an iteration of the main loop began
    tkPc            \* "loop" | "returned" | "hang" (an iteration changed nothing)

tokenVars == <<tkLines, tkI, tkElements, tkReached, tkPc>>

\* Part XI : one run of docx-stack-examples/tools/run_all.py.
VARIABLES
    raIdx,          \* index in EXAMPLES of the example run next
    raCodes,        \* the returncode of each example run so far
    raPrinted,      \* the messages printed so far
    raPc,           \* "running" | "handler" | "exited"
    raStatus        \* exit status of the process (-1 while it runs)

runAllVars == <<raIdx, raCodes, raPrinted, raPc, raStatus>>

vars == <<batchVars, entryVars, goldenVars, a6Vars,
         loVars, rdVars, rgVars, watchVars, combineVars, tokenVars, runAllVars>>

\* What the steps of each part leave alone.
BatchFrame ==
    UNCHANGED <<entryVars, goldenVars, a6Vars, loVars,
                rdVars, rgVars, watchVars, combineVars, tokenVars, runAllVars>>
EntryFrame ==
    UNCHANGED <<batchVars, goldenVars, a6Vars, loVars,
                rdVars, rgVars, watchVars, combineVars, tokenVars, runAllVars>>
GoldenFrame ==
    UNCHANGED <<batchVars, entryVars, a6Vars, loVars,
                rdVars, rgVars, watchVars, combineVars, tokenVars, runAllVars>>
A6Frame ==
    UNCHANGED <<batchVars, entryVars, goldenVars, loVars,
                rdVars, rgVars, watchVars, combineVars, tokenVars, runAllVars>>
LOFrame ==
    UNCHANGED <<batchVars, entryVars, goldenVars, a6Vars,
                rdVars, rgVars, watchVars, combineVars, tokenVars, runAllVars>>
RenderFrame ==
    UNCHANGED <<batchVars, entryVars, goldenVars, a6Vars,
                loVars, rgVars, watchVars, combineVars, tokenVars, runAllVars>>
ReportFrame ==
    UNCHANGED <<batchVars, entryVars, goldenVars, a6Vars,
                loVars, rdVars, watchVars, combineVars, tokenVars, runAllVars>>
WatchFrame ==
    UNCHANGED <<batchVars, entryVars, goldenVars, a6Vars,
                loVars, rdVars, rgVars, combineVars, tokenVars, runAllVars>>
CombineFrame ==
    UNCHANGED <<batchVars, entryVars, goldenVars, a6Vars,
                loVars, rdVars, rgVars, watchVars, tokenVars, runAllVars>>
TokenFrame ==
    UNCHANGED <<batchVars, entryVars, goldenVars, a6Vars,
                loVars, rdVars, rgVars, watchVars, combineVars, runAllVars>>
RunAllFrame ==
    UNCHANGED <<batchVars, entryVars, goldenVars, a6Vars,
                loVars, rdVars, rgVars, watchVars, combineVars, tokenVars>>

\* Default of the max_workers parameter of batch_convert_documents.
max_workers == 4

\* A file name as pathlib sees it: stem and final suffix.
MdName(stem) == [stem |-> stem, suffix |-> ".md"]

\* The CONVERSIONS table.
CONVERSIONS ==
    << [input   |-> MdName("sample_report"),
        outputs |-> << [format |-> "pdf",  options |-> <<"--pdf-engine=pdflatex", "--toc">>],
                       [format |-> "docx", options |-> <<"--toc">>],
                       [format |-> "html", options |-> <<"--standalone", "--toc">>] >>],
       [input   |-> MdName("complex_report"),
        outputs |-> << [format |-> "pdf",  options |-> <<"--pdf-engine=pdflatex", "--toc", "--number-sections">>],
                       [format |-> "docx", options |-> <<"--toc">>],
                       [format |-> "html", options |-> <<"--standalone", "--toc", "--css=github.css">>] >>] >>

Inputs == { CONVERSIONS[i].input : i \in DOMAIN CONVERSIONS }

\* A task is one (conv_config, output_config) pair of the table.
Tasks == { <<i, j>> : i \in DOMAIN CONVERSIONS, j \in 1..3 } \cap
         { t \in (DOMAIN CONVERSIONS) \X (1..3) : t[2] \in DOMAIN CONVERSIONS[t[1]].outputs }

TaskInput(t)   == CONVERSIONS[t[1]].input
TaskFormat(t)  == CONVERSIONS[t[1]].outputs[t[2]].format
TaskOptions(t) == CONVERSIONS[t[1]].outputs[t[2]].options

NoPath == "<none>"

\* A mis-built output name that drops the input stem.
OutputFileNoStem(input, output_format) ==
    "build/" \o "converted" \o "." \o output_format

\* output_file = BUILD / f"{input_path.stem}_to_{output_format}.{output_format}"
OutputFile(input, output_format) ==
    "build/" \o input.stem \o "_to_" \o output_format \o "." \o output_format

\* cmd = ["pandoc", str(input_path), "-o", str(output_file), f"--to={fmt}"] + options
Cmd(t) ==
    <<"pandoc", TaskInput(t).stem \o TaskInput(t).suffix, "-o",
      OutputFile(TaskInput(t), TaskFormat(t)), "--to=" \o TaskFormat(t)>> \o TaskOptions(t)

\* What subprocess.run(cmd, check=True) can do in a worker:
\*   "exit0"               the converter exited with status 0
\*   "CalledProcessError"  the converter exited with a non-zero status
\*   "FileNotFoundError"   the converter binary could not be started
RunOutcomes == {"exit0", "CalledProcessError", "FileNotFoundError"}

\* A submission test that forgets the existence check.
ShouldSubmitAlways(input) == TRUE

\* if not input_file.exists(): ... continue
ShouldSubmit(input) == exists[input]

\* A handler that only catches the converter's own error.
CatchesOnlyCalledProcessError(exc) == exc = "CalledProcessError"

\* except Exception as e: every exception a worker can store is an Exception.
Catches(exc) == exc \in {"CalledProcessError", "FileNotFoundError"}

\* A collection step that records the path whatever the future holds.
CollectAlways(outs, t) ==
    Append(outs, OutputFile(TaskInput(t), TaskFormat(t)))

\* output_path = future.result(); all_outputs.append(output_path)
\* (future.result() re-raises the stored exception, so nothing is appended then)
CollectOne(outs, t) ==
    IF fexc[t] = "none" THEN Append(outs, fresult[t]) ELSE outs

InitBatch ==
    /\ exists \in [Inputs -> BOOLEAN]
    /\ pcMain = "for_conv"
    /\ ci = 1
    /\ oi = 1
    /\ queue = <<>>
    /\ fstate = [t \in Tasks |-> "none"]
    /\ fexc = [t \in Tasks |-> "none"]
    /\ fresult = [t \in Tasks |-> NoPath]
    /\ calls = [t \in Tasks |-> 0]
    /\ writers = {}
    /\ yielded = {}
    /\ all_outputs = <<>>
    /\ appenders = <<>>
    /\ raised = "none"

\* for conv_config in conversions: the existence test of one configuration.
MainNextConfig ==
    /\ BatchFrame
    /\ pcMain = "for_conv"
    /\ IF ci > Len(CONVERSIONS)
         THEN /\ pcMain' = "collect"
              /\ UNCHANGED <<ci, oi>>
         ELSE IF ShouldSubmit(CONVERSIONS[ci].input)
                THEN /\ pcMain' = "for_output"
                     /\ oi' = 1
                     /\ UNCHANGED ci
                ELSE /\ ci' = ci + 1       \* skipped with a warning
                     /\ UNCHANGED <<pcMain, oi>>
    /\ UNCHANGED <<exists, queue, fstate, fexc, fresult, calls, writers,
                   yielded, all_outputs, appenders, raised>>

\* for output_config in conv_config["outputs"]: executor.submit(...)
MainSubmit ==
    /\ BatchFrame
    /\ pcMain = "for_output"
    /\ IF oi > Len(CONVERSIONS[ci].outputs)
         THEN /\ pcMain' = "for_conv"
              /\ ci' = ci + 1
              /\ UNCHANGED <<oi, queue, fstate>>
         ELSE /\ queue' = Append(queue, <<ci, oi>>)
              /\ fstate' = [fstate EXCEPT ![<<ci, oi>>] = "pending"]
              /\ oi' = oi + 1
              /\ UNCHANGED <<pcMain, ci>>
    /\ UNCHANGED <<exists, fexc, fresult, calls, writers, yielded,
                   all_outputs, appenders, raised>>

Running == { t \in Tasks : fstate[t] = "running" }

\* A pool thread takes the oldest work item and enters convert_single_file up to
\* the subprocess.run call.
WorkerStart ==
    /\ BatchFrame
    /\ queue # <<>>
    /\ Cardinality(Running) < max_workers
    /\ LET t == Head(queue) IN
         /\ queue' = Tail(queue)
         /\ fstate' = [fstate EXCEPT ![t] = "running"]
         /\ calls' = [calls EXCEPT ![t] = @ + 1]
         /\ writers' = writers \cup {<<OutputFile(TaskInput(t), TaskFormat(t)), t>>}
    /\ UNCHANGED <<exists, pcMain, ci, oi, fexc, fresult, yielded,
                   all_outputs, appenders, raised>>

\* subprocess.run returns or raises; the pool stores the result or the exception
\* in the future.  The worker never touches all_outputs.
WorkerFinish(t, outcome) ==
    /\ BatchFrame
    /\ fstate[t] = "running"
    /\ fstate' = [fstate EXCEPT ![t] = "finished"]
    /\ IF outcome = "exit0"
         THEN /\ fresult' = [fresult EXCEPT ![t] = OutputFile(TaskInput(t), TaskFormat(t))]
              /\ UNCHANGED fexc
         ELSE /\ fexc' = [fexc EXCEPT ![t] = outcome]
              /\ UNCHANGED fresult
    /\ UNCHANGED <<exists, pcMain, ci, oi, queue, calls, writers, yielded,
                   all_outputs, appenders, raised>>

Submitted == { t \in Tasks : fstate[t] # "none" }

\* for future in as_completed(future_to_conversion): one iteration of the loop body.
MainCollect(t) ==
    /\ BatchFrame
    /\ pcMain = "collect"
    /\ fstate[t] = "finished"
    /\ t \notin yielded
    /\ yielded' = yielded \cup {t}
    /\ IF fexc[t] = "none" \/ Catches(fexc[t])
         THEN /\ all_outputs' = CollectOne(all_outputs, t)
              /\ appenders' = IF Len(all_outputs') > Len(all_outputs)
                                THEN Append(appenders, "main") ELSE appenders
              /\ UNCHANGED <<pcMain, raised>>
         ELSE /\ pcMain' = "raised"     \* the exception leaves the function
              /\ raised' = fexc[t]
              /\ UNCHANGED <<all_outputs, appenders>>
    /\ UNCHANGED <<exists, ci, oi, queue, fstate, fexc, fresult, calls, writers>>

\* as_completed is exhausted; the with block ends (shutdown(wait=True)) and
\* all_outputs is returned.
MainReturn ==
    /\ BatchFrame
    /\ pcMain = "collect"
    /\ yielded = Submitted
    /\ pcMain' = "done"
    /\ UNCHANGED <<exists, ci, oi, queue, fstate, fexc, fresult, calls, writers,
                   yielded, all_outputs, appenders, raised>>

NextBatch ==
    \/ MainNextConfig
    \/ MainSubmit
    \/ WorkerStart
    \/ \E t \in Tasks, o \in RunOutcomes : WorkerFinish(t, o)
    \/ \E t \in Tasks : MainCollect(t)
    \/ MainReturn

\* The batch run before it is started, with both sample documents in place.
BatchOff == exists = [i \in Inputs |-> TRUE] /\ InitBatch

(***************************************************************************)
(* Part II : the script entry points (the "if __name__ == '__main__'"      *)
(* blocks and the main() functions they call)                              *)
(***************************************************************************)

\* One row per entry point.
\*   wrapped : the top-level call sits in try: ... except Exception
\*   silent  : the top-level operation reports failed work through return values
\*             or exit codes that the entry point does not turn into its status
EntryPoint(wrapped, silent) == [wrapped |-> wrapped, silent |-> silent]

ENTRY_POINTS ==
    [ s \in {"_archive/convert_md_to_docx.py", "_archive/make_templates.py",
             "docx/tools/make_assets.py"} |-> EntryPoint(FALSE, FALSE) ]
    @@
    [ s \in {"_archive/report_pdf_generator.py", "docx/tools/run_all.py"}
          |-> EntryPoint(TRUE, TRUE) ]
    @@
    [ s \in {"docx/src/a1_docxtpl_basic.py", "docx/src/a2_richtext.py",
             "docx/src/a3_images.py", "docx/src/a4_documentation_generator.py",
             "docx/src/a5_python_docx_only.py", "docx/src/a6_docxtpl_advanced.py",
             "chromium/src/c2_dashboard_with_charts.py",
             "chromium/src/c3_header_footer_pdf.py", "chromium/tools/run_all.py",
             "pandoc/src/p1_font_examples.py", "pandoc/src/p1_markdown_to_pdf.py",
             "pandoc/src/p2_markdown_to_docx.py", "pandoc/src/p3_batch_conversion.py",
             "pandoc/src/p4_combine_articles_to_pdf.py", "pandoc/src/p5_epub_to_pdf.py",
             "pandoc/tools/run_all.py",
             "weasyprint/src/w1_html_to_pdf_basic.py",
             "weasyprint/src/w2_template_based_pdf.py",
             "weasyprint/src/w3_external_resources.py", "weasyprint/tools/run_all.py"}
          |-> EntryPoint(TRUE, FALSE) ]

Scripts == DOMAIN ENTRY_POINTS

InitEntry ==
    /\ epScript = "none"
    /\ epPc = "idle"
    /\ epOutcome = "none"
    /\ epStatus = -1
    /\ epPrinted = FALSE
    /\ epUncaught = FALSE

\* python <script>: control reaches the top-level call.
EntryStart(s) ==
    /\ EntryFrame
    /\ epPc = "idle"
    /\ epScript' = s
    /\ epPc' = "call"
    /\ UNCHANGED <<epOutcome, epStatus, epPrinted, epUncaught>>

\* The top-level operation returns after doing its work.
TopLevelReturns ==
    /\ EntryFrame
    /\ epPc = "call"
    /\ epOutcome' = "ok"
    /\ epPc' = "after_call"
    /\ UNCHANGED <<epScript, epStatus, epPrinted, epUncaught>>

\* The top-level operation returns although its work failed (a conversion that
\* returned False, an example subprocess with a non-zero return code).
TopLevelFailsQuietly ==
    /\ EntryFrame
    /\ epPc = "call"
    /\ ENTRY_POINTS[epScript].silent
    /\ epOutcome' = "failed_no_raise"
    /\ epPc' = "after_call"
    /\ UNCHANGED <<epScript, epStatus, epPrinted, epUncaught>>

\* The top-level operation raises an Exception: it is caught where a handler
\* surrounds the call and propagates where none does.
TopLevelRaises ==
    /\ EntryFrame
    /\ epPc = "call"
    /\ epOutcome' = "raise"
    /\ epPc' = IF ENTRY_POINTS[epScript].wrapped THEN "handler" ELSE "propagating"
    /\ UNCHANGED <<epScript, epStatus, epPrinted, epUncaught>>

\* except Exception as e: print(...); exit(1) / return 1 / sys.exit(1)
HandlerRuns ==
    /\ EntryFrame
    /\ epPc = "handler"
    /\ epPrinted' = TRUE
    /\ epStatus' = 1
    /\ epPc' = "exited"
    /\ UNCHANGED <<epScript, epOutcome, epUncaught>>

\* The statements after the call run to the end: return 0 / end of the script.
FallsThrough ==
    /\ EntryFrame
    /\ epPc = "after_call"
    /\ epStatus' = 0
    /\ epPc' = "exited"
    /\ UNCHANGED <<epScript, epOutcome, epPrinted, epUncaught>>

\* No handler: the exception leaves the script and the interpreter ends the
\* process with its traceback and status 1.
InterpreterAborts ==
    /\ EntryFrame
    /\ epPc = "propagating"
    /\ epUncaught' = TRUE
    /\ epStatus' = 1
    /\ epPc' = "exited"
    /\ UNCHANGED <<epScript, epOutcome, epPrinted>>

NextEntry ==
    \/ \E s \in Scripts : EntryStart(s)
    \/ TopLevelReturns
    \/ TopLevelFailsQuietly
    \/ TopLevelRaises
    \/ HandlerRuns
    \/ FallsThrough
    \/ InterpreterAborts

\* C5: every entry point whose top-level operation raised or failed ends with
\* its own error message and status 1, never with the exception uncaught and
\* never with status 0.
C5_EveryEntryPointHandles ==
    (epPc = "exited" /\ epOutcome # "ok") =>
        /\ epStatus = 1
        /\ epPrinted
        /\ ~epUncaught

(***************************************************************************)
(* Part III : docx-stack-examples/tests/golden/test_d1_golden.py and       *)
(*            docx-stack-examples/tools/normalize_docx.py                  *)
(***************************************************************************)

\* Longest word/document.xml the renderers produce here, in tokens.
MaxXmlLen == 3
\* Longest content of a golden file found on disk before the test, in tokens.
MaxGoldenLen == 1

\* A document is a sequence of tokens:
\*   "x"   text that no pattern touches
\*   " "   a blank, "nl" a line break (both match \s)
\*   "V"   an attribute matched by one of the VOLATILE_PATTERNS
XmlTokens == {"x", " ", "nl", "V"}

RECURSIVE SeqsUpTo(_, _)
SeqsUpTo(S, n) ==
    IF n = 0 THEN {<<>>}
    ELSE LET shorter == SeqsUpTo(S, n - 1)
         IN  shorter \cup { Append(q, c) : q \in shorter, c \in S }

\* z.read("word/document.xml").decode("utf-8", errors="ignore")
RawDocs == SeqsUpTo(XmlTokens, MaxXmlLen)

IsSpace(c) == c \in {" ", "nl"}

\* for pat in VOLATILE_PATTERNS: xml = re.sub(pat, "", xml)
StripVolatile(xml) == SelectSeq(xml, LAMBDA c : c # "V")

\* re.sub(r"\s+", " ", xml)
RECURSIVE CollapseSpace(_)
CollapseSpace(xml) ==
    IF xml = <<>> THEN <<>>
    ELSE IF IsSpace(Head(xml))
           THEN IF Tail(xml) # <<>> /\ IsSpace(Head(Tail(xml)))
                  THEN CollapseSpace(Tail(xml))
                  ELSE <<" ">> \o CollapseSpace(Tail(xml))
           ELSE <<Head(xml)>> \o CollapseSpace(Tail(xml))

\* str.strip()
RECURSIVE LStrip(_)
LStrip(xml) ==
    IF xml # <<>> /\ IsSpace(Head(xml)) THEN LStrip(Tail(xml)) ELSE xml

RECURSIVE RStrip(_)
RStrip(xml) ==
    IF xml # <<>> /\ IsSpace(xml[Len(xml)])
      THEN RStrip(SubSeq(xml, 1, Len(xml) - 1)) ELSE xml

Strip(xml) == RStrip(LStrip(xml))

normalize_xml(xml) == Strip(CollapseSpace(StripVolatile(xml)))

\* run_and_get_xml: what mod.render() followed by normalize_docx_to_string can give.
RenderedXml == { normalize_xml(r) : r \in RawDocs }

\* CASES (module, output document, golden file)
CASES ==
    << [mod |-> "src.a1_docxtpl_basic", out |-> "out_a1_basic.docx",    golden_xml |-> "a1_basic.xml"],
       [mod |-> "src.a2_richtext",      out |-> "out_a2_richtext.docx", golden_xml |-> "a2_richtext.xml"],
       [mod |-> "src.a3_images",        out |-> "out_a3_images.docx",   golden_xml |-> "a3_images.xml"] >>

GoldenFiles == { CASES[i].golden_xml : i \in DOMAIN CASES }

\* No file: a value no file content equals.
Absent == <<"<absent>">>

\* What a golden file can hold before the test: any text of words and blanks,
\* normalized or not.
StoredTexts == SeqsUpTo({"x", " "}, MaxGoldenLen)

\* An update switch that any set value turns on.
UpdateIfSet(env) == env # "<unset>"

\* update = os.getenv("UPDATE_GOLDEN") == "1"
Update(env) == env = "1"

\* A comparison that accepts a rendered text the golden text starts with.
XmlEqualPrefix(xml, expected) ==
    /\ Len(xml) <= Len(expected)
    /\ SubSeq(expected, 1, Len(xml)) = xml

\* assert xml == expected
XmlEqual(xml, expected) == xml = expected

InitGolden ==
    /\ envUpdateGolden \in {"<unset>", "1", "0"}
    /\ golden \in [GoldenFiles -> StoredTexts \cup {Absent}]
    /\ golden0 = golden
    /\ gi = 1
    /\ testPc = "running"
    /\ xmlNow = <<>>
    /\ wrote = {}
    /\ compared = {}
    /\ sawDiff = FALSE

\* The golden tree before any test run that the other parts assume.
GoldenOff ==
    /\ envUpdateGolden = "<unset>"
    /\ golden = [g \in GoldenFiles |-> Absent]
    /\ InitGolden

\* One iteration of "for mod_name, out_name, golden_xml in CASES" in which
\* render() and the normalization succeed and give xml.
GoldenCase(xml) ==
    /\ GoldenFrame
    /\ testPc = "running"
    /\ gi <= Len(CASES)
    /\ LET gfile == CASES[gi].golden_xml IN
         /\ xmlNow' = xml
         /\ IF Update(envUpdateGolden) \/ golden[gfile] = Absent
              THEN \* gfile.write_text(xml, encoding="utf-8")
                   /\ golden' = [golden EXCEPT ![gfile] = xml]
                   /\ wrote' = wrote \cup {gfile}
                   /\ gi' = gi + 1
                   /\ UNCHANGED <<testPc, compared, sawDiff>>
              ELSE \* expected = gfile.read_text(...); assert xml == expected
                   /\ compared' = compared \cup {gfile}
                   /\ sawDiff' = (sawDiff \/ xml # golden[gfile])
                   /\ IF XmlEqual(xml, golden[gfile])
                        THEN /\ gi' = gi + 1
                             /\ UNCHANGED testPc
                        ELSE /\ testPc' = "failed"
                             /\ UNCHANGED gi
                   /\ UNCHANGED <<golden, wrote>>
    /\ UNCHANGED <<envUpdateGolden, golden0>>

\* mod.render() or the reading of the rendered document raises.
GoldenRenderRaises ==
    /\ GoldenFrame
    /\ testPc = "running"
    /\ gi <= Len(CASES)
    /\ testPc' = "error"
    /\ UNCHANGED <<envUpdateGolden, golden, golden0, gi, xmlNow, wrote,
                   compared, sawDiff>>

\* The loop is over: the test function returns.
GoldenPasses ==
    /\ GoldenFrame
    /\ testPc = "running"
    /\ gi > Len(CASES)
    /\ testPc' = "passed"
    /\ UNCHANGED <<envUpdateGolden, golden, golden0, gi, xmlNow, wrote,
                   compared, sawDiff>>

NextGolden ==
    \/ \E xml \in RenderedXml : GoldenCase(xml)
    \/ GoldenRenderRaises
    \/ GoldenPasses

\* C6: with UPDATE_GOLDEN other than '1', a case whose golden file exists is
\* compared, a difference between the normalized XML and the stored text fails
\* the test at once, and so the test passes only if every such case was equal.
C6_PassesOnlyIfEqual ==
    /\ sawDiff => testPc = "failed"
    /\ (testPc = "passed" /\ envUpdateGolden # "1") =>
           /\ ~sawDiff
           /\ \A g \in GoldenFiles : golden0[g] # Absent => g \in compared
    /\ (testPc = "running" /\ envUpdateGolden # "1" /\ gi > 1) =>
           (golden0[CASES[gi - 1].golden_xml] # Absent =>
                xmlNow = golden0[CASES[gi - 1].golden_xml])

C6_Witness ==
    /\ testPc = "passed"
    /\ envUpdateGolden = "0"
    /\ compared = GoldenFiles
    /\ xmlNow = <<"x">>
    /\ golden0[CASES[1].golden_xml] = <<>>

\* C7: a golden file is written only if UPDATE_GOLDEN is '1' or the file did
\* not exist, and a case that is written is not compared; every golden file the
\* run did not write holds what it held before, whether the test passed or failed.
C7_GoldenWrittenOnlyOnUpdateOrMissing ==
    \A g \in GoldenFiles :
        /\ g \in wrote => /\ envUpdateGolden = "1" \/ golden0[g] = Absent
                          /\ g \notin compared
        /\ g \notin wrote => golden[g] = golden0[g]
        /\ (envUpdateGolden # "1" /\ golden0[g] # Absent) => golden[g] = golden0[g]

C7_Witness ==
    /\ testPc = "failed"
    /\ envUpdateGolden = "0"
    /\ wrote = {CASES[1].golden_xml}
    /\ compared = {CASES[2].golden_xml, CASES[3].golden_xml}
    /\ golden[CASES[3].golden_xml] = golden0[CASES[3].golden_xml]
    /\ xmlNow # golden[CASES[3].golden_xml]

(***************************************************************************)
(* Part IV : docx-stack-examples/src/a6_docxtpl_advanced.py                *)
(***************************************************************************)

NoError == [type |-> "none", msg |-> ""]
Error(type, msg) == [type |-> type, msg |-> msg]

Returns(v) == [ret |-> v, exc |-> NoError]
Raises(type, msg) == [ret |-> "none", exc |-> Error(type, msg)]

\* ConversionMethod = Literal["libreoffice", "pandoc", "auto"]
ConversionMethod == {"libreoffice", "pandoc", "auto"}

\* detect_office_backend(): "libreoffice", "msword" or None
detect_office_backend ==
    IF soffice THEN "libreoffice"
    ELSE IF msword THEN "msword"
    ELSE "None"

\* check_dependencies(method)
check_dependencies(m) ==
    LET office_backend == detect_office_backend
        has_pandoc == pandocOk
    IN  IF m = "auto"
          THEN IF office_backend # "None" THEN Returns("libreoffice")
               ELSE IF has_pandoc THEN Returns("pandoc")
               ELSE Raises("RuntimeError", "No PDF conversion method available")
        ELSE IF m = "libreoffice"
          THEN IF office_backend = "None"
                 THEN Raises("RuntimeError", "LibreOffice not found")
                 ELSE Returns("libreoffice")
        ELSE IF m = "pandoc"
          THEN IF ~has_pandoc
                 THEN Raises("RuntimeError", "pandoc is not installed")
               ELSE IF ~xelatexOk
                 THEN Raises("RuntimeError", "xelatex is not installed")
               ELSE Returns("pandoc")
        ELSE Returns(m)

\* A handler table that reports an unexpected error as success.
MainExitUnexpectedOk(exc) ==
    IF exc.type \in {"none", "Exception"} THEN 0 ELSE 1

\* main: return 0 at the end of the try block; return 1 in the handlers for
\* (RuntimeError, FileNotFoundError, ValueError), KeyboardInterrupt and Exception.
MainExit(exc) ==
    IF exc.type = "none" THEN 0
    ELSE IF exc.type \in {"RuntimeError", "FileNotFoundError", "ValueError"} THEN 1
    ELSE IF exc.type = "KeyboardInterrupt" THEN 1
    ELSE 1

InitA6 ==
    /\ soffice \in BOOLEAN
    /\ msword \in BOOLEAN
    /\ pandocOk \in BOOLEAN
    /\ xelatexOk \in BOOLEAN
    /\ templateExists \in BOOLEAN
    /\ method \in ConversionMethod
    /\ a6Pc = "generate"
    /\ a6Method = "none"
    /\ a6Error = NoError
    /\ a6Exit = -1
    /\ docxFile = "absent"
    /\ pdfFile \in {"absent", "stale"}
    /\ genOk = FALSE
    /\ convAttempted = FALSE
    /\ pdfOk = FALSE

\* The machine the other parts assume: nothing installed, main not started.
A6Off ==
    /\ soffice = FALSE /\ msword = FALSE /\ pandocOk = FALSE
    /\ xelatexOk = FALSE /\ templateExists = FALSE
    /\ method = "auto"
    /\ pdfFile = "absent"
    /\ InitA6

GenOutcomes == {"ok", "template_missing", "render_raises", "interrupted",
                "not_created", "empty"}

\* docx_file = generate_docx_from_template()
A6Generate(o) ==
    /\ A6Frame
    /\ a6Pc = "generate"
    /\ (o = "template_missing") <=> ~templateExists
    /\ CASE o = "ok" ->
              /\ docxFile' = "ok"
              /\ genOk' = TRUE
              /\ a6Pc' = "check_deps"
              /\ UNCHANGED a6Error
         [] o = "template_missing" ->
              /\ a6Error' = Error("FileNotFoundError", "Template not found")
              /\ a6Pc' = "handler"
              /\ UNCHANGED <<docxFile, genOk>>
         [] o = "render_raises" ->
              /\ a6Error' = Error("Exception", "template rendering failed")
              /\ a6Pc' = "handler"
              /\ UNCHANGED <<docxFile, genOk>>
         [] o = "interrupted" ->
              /\ a6Error' = Error("KeyboardInterrupt", "")
              /\ a6Pc' = "handler"
              /\ UNCHANGED <<docxFile, genOk>>
         [] o = "not_created" ->
              /\ a6Error' = Error("RuntimeError", "DOCX file was not created")
              /\ a6Pc' = "handler"
              /\ UNCHANGED <<docxFile, genOk>>
         [] o = "empty" ->
              /\ docxFile' = "empty"
              /\ a6Error' = Error("RuntimeError", "DOCX file is empty")
              /\ a6Pc' = "handler"
              /\ UNCHANGED genOk
    /\ UNCHANGED <<a6Env, a6Method, a6Exit, pdfFile, convAttempted, pdfOk>>

\* convert_docx_to_pdf: actual_method = check_dependencies(method)
A6CheckDeps ==
    /\ A6Frame
    /\ a6Pc = "check_deps"
    /\ convAttempted' = TRUE
    /\ LET r == check_dependencies(method) IN
         IF r.exc = NoError
           THEN /\ a6Method' = r.ret
                /\ a6Pc' = "convert"
                /\ UNCHANGED a6Error
           ELSE /\ a6Error' = r.exc
                /\ a6Pc' = "handler"
                /\ UNCHANGED a6Method
    /\ UNCHANGED <<a6Env, a6Exit, docxFile, pdfFile, genOk, pdfOk>>

LibreOfficeOutcomes == {"ok", "not_created", "empty", "nonzero_exit", "timeout"}

\* convert_docx_to_pdf_with_libreoffice(docx_path, None)
A6ConvertLibreOffice(o) ==
    /\ A6Frame
    /\ a6Pc = "convert"
    /\ a6Method = "libreoffice"
    /\ IF ~soffice
         THEN \* if not soffice_path: raise RuntimeError(...)
              /\ a6Error' = Error("RuntimeError", "LibreOffice executable not found")
              /\ a6Pc' = "handler"
              /\ UNCHANGED <<pdfFile, pdfOk>>
         ELSE \* output_path.unlink() if it exists, then the soffice run
              CASE o = "ok" ->
                     /\ pdfFile' = "fresh"
                     /\ pdfOk' = TRUE
                     /\ a6Pc' = "report"
                     /\ UNCHANGED a6Error
                [] o = "not_created" ->
                     /\ pdfFile' = "absent"
                     /\ a6Error' = Error("RuntimeError", "PDF file was not created")
                     /\ a6Pc' = "handler"
                     /\ UNCHANGED pdfOk
                [] o = "empty" ->
                     /\ pdfFile' = "empty"
                     /\ a6Error' = Error("RuntimeError", "PDF file is empty")
                     /\ a6Pc' = "handler"
                     /\ UNCHANGED pdfOk
                [] o = "nonzero_exit" ->
                     /\ pdfFile' = "absent"
                     /\ a6Error' = Error("RuntimeError", "LibreOffice conversion failed")
                     /\ a6Pc' = "handler"
                     /\ UNCHANGED pdfOk
                [] o = "timeout" ->
                     /\ pdfFile' = "absent"
                     /\ a6Error' = Error("RuntimeError", "LibreOffice conversion timed out")
                     /\ a6Pc' = "handler"
                     /\ UNCHANGED pdfOk
    /\ UNCHANGED <<a6Env, a6Method, a6Exit, docxFile, genOk, convAttempted>>

PandocOutcomes == {"ok", "not_created", "empty", "nonzero_exit", "timeout"}

\* convert_docx_to_pdf_with_pandoc(docx_path, None); pandoc cannot exit 0 when
\* its PDF engine xelatex is missing.
A6ConvertPandoc(o) ==
    /\ A6Frame
    /\ a6Pc = "convert"
    /\ a6Method = "pandoc"
    /\ o \in {"ok", "not_created", "empty"} => xelatexOk
    /\ CASE o = "ok" ->
              /\ pdfFile' = "fresh"
              /\ pdfOk' = TRUE
              /\ a6Pc' = "report"
              /\ UNCHANGED a6Error
         [] o = "not_created" /\ pdfFile = "absent" ->
              /\ a6Error' = Error("RuntimeError", "PDF file was not created")
              /\ a6Pc' = "handler"
              /\ UNCHANGED <<pdfFile, pdfOk>>
         [] o = "not_created" /\ pdfFile # "absent" ->
              \* the file of an earlier run passes both checks
              /\ pdfOk' = TRUE
              /\ a6Pc' = "report"
              /\ UNCHANGED <<pdfFile, a6Error>>
         [] o = "empty" ->
              /\ pdfFile' = "empty"
              /\ a6Error' = Error("RuntimeError", "PDF file is empty")
              /\ a6Pc' = "handler"
              /\ UNCHANGED pdfOk
         [] o = "nonzero_exit" ->
              /\ a6Error' = Error("RuntimeError", "Pandoc conversion failed")
              /\ a6Pc' = "handler"
              /\ UNCHANGED <<pdfFile, pdfOk>>
         [] o = "timeout" ->
              /\ a6Error' = Error("RuntimeError", "Pandoc conversion timed out")
              /\ a6Pc' = "handler"
              /\ UNCHANGED <<pdfFile, pdfOk>>
    /\ UNCHANGED <<a6Env, a6Method, a6Exit, docxFile, genOk, convAttempted>>

\* The success report and "return 0".
A6ReturnSuccess ==
    /\ A6Frame
    /\ a6Pc = "report"
    /\ a6Exit' = MainExit(a6Error)
    /\ a6Pc' = "done"
    /\ UNCHANGED <<a6Env, a6Method, a6Error, docxFile, pdfFile, genOk,
                   convAttempted, pdfOk>>

\* One of the except clauses of main.
A6Handler ==
    /\ A6Frame
    /\ a6Pc = "handler"
    /\ a6Exit' = MainExit(a6Error)
    /\ a6Pc' = "done"
    /\ UNCHANGED <<a6Env, a6Method, a6Error, docxFile, pdfFile, genOk,
                   convAttempted, pdfOk>>

NextA6 ==
    \/ \E o \in GenOutcomes : A6Generate(o)
    \/ A6CheckDeps
    \/ \E o \in LibreOfficeOutcomes : A6ConvertLibreOffice(o)
    \/ \E o \in PandocOutcomes : A6ConvertPandoc(o)
    \/ A6ReturnSuccess
    \/ A6Handler

\* C8: in 'auto' mode, with no LibreOffice executable but with pandoc, the
\* conversion goes to pandoc and never fails for want of LibreOffice; a
\* missing-converter RuntimeError is raised only when neither is available.
C8_AutoFallsBackToPandoc ==
    (method = "auto" /\ convAttempted) =>
        /\ (~soffice /\ pandocOk) =>
               /\ a6Method \in {"none", "pandoc"}
               /\ a6Error.msg # "LibreOffice executable not found"
        /\ a6Error.msg \in {"LibreOffice executable not found",
                            "No PDF conversion method available"}
               => (~soffice /\ ~pandocOk)

\* C9: whatever method is requested, check_dependencies returns 'pandoc' only
\* when both pandoc and xelatex are available.
C9_PandocNeedsXelatex ==
    a6Method = "pandoc" => (pandocOk /\ xelatexOk)

\* C10: main returns 0 exactly when both the DOCX generation and the PDF
\* conversion succeeded and 1 otherwise; the conversion is attempted only after
\* the DOCX was generated; a failed conversion leaves the generated DOCX in place.
C10_ExitCode ==
    /\ a6Pc = "done" => /\ a6Exit \in {0, 1}
                        /\ (a6Exit = 0) <=> (genOk /\ pdfOk)
    /\ a6Pc # "done" => a6Exit = -1
    /\ convAttempted => (genOk /\ docxFile = "ok")
    /\ pdfOk => convAttempted
    /\ (genOk /\ a6Pc = "done" /\ ~pdfOk) => docxFile = "ok"

C10_Witness ==
    /\ a6Pc = "done"
    /\ a6Exit = 1
    /\ genOk
    /\ convAttempted
    /\ ~pdfOk
    /\ a6Error.msg = "PDF file is empty"
    /\ docxFile = "ok"

(***************************************************************************)
(* Part V : convert_docx_to_pdf_with_libreoffice called with any           *)
(* output_path (docx-stack-examples/src/a6_docxtpl_advanced.py)            *)
(***************************************************************************)

\* A PDF path: its directory and the stem of its name.
PdfPath(parent, stem) == [parent |-> parent, stem |-> stem]

\* BUILD, the default output directory.
BUILD == "build"

\* input_path.stem of the DOCX being converted.
InputStem == "out_a6_advanced"

NoOutputPath == [parent |-> "", stem |-> ""]

\* The values of the output_path argument: None, the default location given
\* explicitly, another name in BUILD, and the input's name or another name in
\* another directory.
OutputArgs == {NoOutputPath,
               PdfPath(BUILD, InputStem), PdfPath(BUILD, "report"),
               PdfPath("dist", InputStem), PdfPath("dist", "report")}

PdfPaths == OutputArgs \ {NoOutputPath}

\* File states left by earlier runs, and those this invocation's soffice
\* process can produce.
OldStates == {"absent", "stale", "stale_empty"}

\* validate_file_path(docx_path), must_exist = True
validate_file_path(kind) ==
    IF kind = "absent" THEN Raises("FileNotFoundError", "File not found")
    ELSE IF kind # "file" THEN Raises("ValueError", "Path is not a file")
    ELSE Returns(kind)

\* output_path as computed at the head of the function.
ResolveOutput(arg) ==
    IF arg = NoOutputPath THEN PdfPath(BUILD, InputStem) ELSE arg

\* expected_pdf = output_path.parent / f"{input_path.stem}.pdf"
ExpectedPdf(output_path) == PdfPath(output_path.parent, InputStem)

\* p.exists()
PathExists(files, p) == files[p] # "absent"

\* p.stat().st_size == 0
IsEmptyFile(files, p) == files[p] \in {"stale_empty", "fresh_empty"}

\* p.unlink()
Unlink(files, p) == [files EXCEPT ![p] = "absent"]

\* src.rename(dst): dst is replaced by the file src named.
Rename(files, src, dst) == [files EXCEPT ![dst] = files[src], ![src] = "absent"]

InitLO ==
    /\ loDocx \in {"absent", "dir", "file"}
    /\ loArg \in OutputArgs
    /\ loSoffice \in BOOLEAN
    /\ loFiles \in [PdfPaths -> OldStates]
    /\ loPc = "validate"
    /\ loOutPath = NoOutputPath
    /\ loExc = NoError
    /\ loRet = NoOutputPath

\* Nothing on disk, the function not called.
LOOff ==
    /\ loDocx = "absent"
    /\ loArg = NoOutputPath
    /\ loSoffice = FALSE
    /\ loFiles = [p \in PdfPaths |-> "absent"]
    /\ InitLO

\* input_path = validate_file_path(docx_path); output_path = ...
LOValidate ==
    /\ LOFrame
    /\ loPc = "validate"
    /\ LET v == validate_file_path(loDocx) IN
         IF v.exc # NoError
         THEN /\ loExc' = v.exc
              /\ loPc' = "raised"
              /\ UNCHANGED loOutPath
         ELSE /\ loOutPath' = ResolveOutput(loArg)
              /\ loPc' = "find"
              /\ UNCHANGED loExc
    /\ UNCHANGED <<loEnv, loFiles, loRet>>

\* the search through libreoffice_paths
LOFindSoffice ==
    /\ LOFrame
    /\ loPc = "find"
    /\ IF loSoffice
       THEN /\ loPc' = "run"
            /\ UNCHANGED loExc
       ELSE /\ loExc' = Error("RuntimeError", "LibreOffice executable not found")
            /\ loPc' = "raised"
    /\ UNCHANGED <<loEnv, loFiles, loOutPath, loRet>>

\* How the soffice process can end: it writes <outdir>/<stem>.pdf (with or
\* without content), it exits 0 having written nothing, it exits non-zero,
\* it is killed after the timeout, or it cannot be started.
SofficeOutcomes == {"written", "written_empty", "nothing", "nonzero",
                    "timeout", "oserror"}

\* The try block up to subprocess.run: unlink output_path, run soffice.
LORun(o) ==
    /\ LOFrame
    /\ loPc = "run"
    /\ LET unlinked == IF PathExists(loFiles, loOutPath)
                       THEN Unlink(loFiles, loOutPath) ELSE loFiles
           expected == ExpectedPdf(loOutPath)
       IN CASE o = "written" ->
                 /\ loFiles' = [unlinked EXCEPT ![expected] = "fresh"]
                 /\ loPc' = "check"
                 /\ UNCHANGED loExc
            [] o = "written_empty" ->
                 /\ loFiles' = [unlinked EXCEPT ![expected] = "fresh_empty"]
                 /\ loPc' = "check"
                 /\ UNCHANGED loExc
            [] o = "nothing" ->
                 /\ loFiles' = unlinked
                 /\ loPc' = "check"
                 /\ UNCHANGED loExc
            [] o = "nonzero" ->
                 /\ loFiles' = unlinked
                 /\ loExc' = Error("RuntimeError", "LibreOffice conversion failed with return code")
                 /\ loPc' = "raised"
            [] o = "timeout" ->
                 /\ loFiles' = unlinked
                 /\ loExc' = Error("RuntimeError", "LibreOffice conversion timed out")
                 /\ loPc' = "raised"
            [] o = "oserror" ->
                 /\ loFiles' = unlinked
                 /\ loExc' = Error("RuntimeError", "LibreOffice conversion failed")
                 /\ loPc' = "raised"
    /\ UNCHANGED <<loEnv, loOutPath, loRet>>

\* The rest of the try block: rename expected_pdf, validate, return.
LOCheck ==
    /\ LOFrame
    /\ loPc = "check"
    /\ LET expected == ExpectedPdf(loOutPath)
           renamed == IF expected # loOutPath /\ PathExists(loFiles, expected)
                      THEN Rename(loFiles, expected, loOutPath) ELSE loFiles
       IN /\ loFiles' = renamed
          /\ IF ~PathExists(renamed, loOutPath)
             THEN /\ loExc' = Error("RuntimeError", "PDF file was not created")
                  /\ loPc' = "raised"
                  /\ UNCHANGED loRet
             ELSE IF IsEmptyFile(renamed, loOutPath)
             THEN /\ loExc' = Error("RuntimeError", "PDF file is empty")
                  /\ loPc' = "raised"
                  /\ UNCHANGED loRet
             ELSE /\ loRet' = loOutPath
                  /\ loPc' = "returned"
                  /\ UNCHANGED loExc
    /\ UNCHANGED <<loEnv, loOutPath>>

NextLO ==
    \/ LOValidate
    \/ LOFindSoffice
    \/ \E o \in SofficeOutcomes : LORun(o)
    \/ LOCheck

\* C11: when convert_docx_to_pdf_with_libreoffice returns, the path it
\* returns names a non-empty PDF that this invocation's soffice run wrote,
\* never a file left by an earlier run, whatever output_path was given; and
\* once the input is validated every failure leaves as a RuntimeError.
C11_ReturnsFreshPdf ==
    /\ loPc = "returned" => loFiles[loRet] = "fresh"
    /\ (loPc = "raised" /\ loOutPath # NoOutputPath) => loExc.type = "RuntimeError"

(***************************************************************************)
(* Part VI : render() of docx-stack-examples/src/a1_docxtpl_basic.py and   *)
(* a3_images.py                                                            *)
(***************************************************************************)

RenderScripts == {"a1", "a3"}

\* Names a template can reference and a context can define.
VarNames == {"title", "image", "caption"}

\* ctx of a3_images.render: {"image": ..., "caption": ...}
A3Context == {"image", "caption"}

\* The undeclared-variable check never reports a variable.
MissingNever(tplVars, ctxKeys) == {}

\* missing = doc.get_undeclared_template_variables(ctx)
MissingVariables(tplVars, ctxKeys) == tplVars \ ctxKeys

InitRender ==
    /\ rdScript \in RenderScripts
    /\ rdTemplate \in BOOLEAN
    /\ rdInput \in BOOLEAN
    /\ rdTplVars \in SUBSET VarNames
    /\ rdCtxKeys \in IF rdScript = "a3" THEN {A3Context} ELSE SUBSET VarNames
    /\ rdHasMethod \in BOOLEAN
    /\ rdOut \in {"absent", "old"}
    /\ rdOut0 = rdOut
    /\ rdPc = "template"
    /\ rdExc = "none"

\* render not called.
RenderOff ==
    /\ rdScript = "a1"
    /\ rdTemplate = FALSE /\ rdInput = FALSE /\ rdHasMethod = FALSE
    /\ rdTplVars = {} /\ rdCtxKeys = {}
    /\ rdOut = "absent"
    /\ InitRender

\* if not TEMPLATE.exists(): raise FileNotFoundError
RenderCheckTemplate ==
    /\ RenderFrame
    /\ rdPc = "template"
    /\ IF rdTemplate
       THEN rdPc' = "input" /\ UNCHANGED rdExc
       ELSE rdPc' = "raised" /\ rdExc' = "FileNotFoundError"
    /\ UNCHANGED <<rdEnv, rdOut>>

\* if not DATA.exists() / if not IMG.exists(): raise FileNotFoundError
RenderCheckInput ==
    /\ RenderFrame
    /\ rdPc = "input"
    /\ IF rdInput
       THEN rdPc' = (IF rdScript = "a1" THEN "validate" ELSE "render")
            /\ UNCHANGED rdExc
       ELSE rdPc' = "raised" /\ rdExc' = "FileNotFoundError"
    /\ UNCHANGED <<rdEnv, rdOut>>

\* a1 only: the try block around get_undeclared_template_variables; an
\* AttributeError of the call is swallowed and rendering goes on.
RenderValidate ==
    /\ RenderFrame
    /\ rdPc = "validate"
    /\ IF rdHasMethod /\ MissingVariables(rdTplVars, rdCtxKeys) # {}
       THEN rdPc' = "raised" /\ rdExc' = "KeyError"
       ELSE rdPc' = "render" /\ UNCHANGED rdExc
    /\ UNCHANGED <<rdEnv, rdOut>>

\* doc.render(ctx): it returns, or the template engine raises.
RenderDoc(ok) ==
    /\ RenderFrame
    /\ rdPc = "render"
    /\ IF ok
       THEN rdPc' = "save" /\ UNCHANGED rdExc
       ELSE rdPc' = "raised" /\ rdExc' = "Exception"
    /\ UNCHANGED <<rdEnv, rdOut>>

\* doc.save(str(output_path)); return output_path
RenderSave ==
    /\ RenderFrame
    /\ rdPc = "save"
    /\ rdOut' = "new"
    /\ rdPc' = "returned"
    /\ UNCHANGED <<rdEnv, rdExc>>

NextRender ==
    \/ RenderCheckTemplate
    \/ RenderCheckInput
    \/ RenderValidate
    \/ \E ok \in BOOLEAN : RenderDoc(ok)
    \/ RenderSave

RenderEnded == rdPc \in {"returned", "raised"}

\* The output document is as it was when render was called.
RenderWroteNothing == rdOut = rdOut0

\* The checks render performs before it writes, common to both statements.
RenderFileChecks ==
    /\ (RenderEnded /\ (~rdTemplate \/ ~rdInput))
           => (rdExc = "FileNotFoundError" /\ RenderWroteNothing)
    /\ rdPc = "raised" => RenderWroteNothing
    /\ ~RenderWroteNothing => (rdPc = "returned" /\ rdTemplate /\ rdInput)

\* C12 as stated: render writes only after every validation passed; a1's
\* render raises FileNotFoundError when template or data file is missing and
\* KeyError whenever the template references a variable absent from the
\* context, and then nothing is written.
C12_KeyErrorOnMissingVariable ==
    /\ RenderFileChecks
    /\ (RenderEnded /\ rdScript = "a1" /\ rdTemplate /\ rdInput
            /\ ~(rdTplVars \subseteq rdCtxKeys))
           => (rdExc = "KeyError" /\ RenderWroteNothing)

\* C12 amended: as C12, but a1's render raises KeyError for an absent
\* variable only when get_undeclared_template_variables can be called; when
\* that call raises AttributeError the check is skipped and the document is
\* rendered and saved.
C12_KeyErrorWhenCheckAvailable ==
    /\ RenderFileChecks
    /\ (RenderEnded /\ rdScript = "a1" /\ rdTemplate /\ rdInput /\ rdHasMethod
            /\ ~(rdTplVars \subseteq rdCtxKeys))
           => (rdExc = "KeyError" /\ RenderWroteNothing)
    /\ (rdExc = "KeyError")
           => (rdScript = "a1" /\ rdHasMethod /\ ~(rdTplVars \subseteq rdCtxKeys))

\* a1's render stopped with KeyError on a template variable the context
\* lacks, the output that existed before being left as it was.
C12_Witness ==
    /\ rdScript = "a1" /\ rdPc = "raised" /\ rdExc = "KeyError"
    /\ rdTemplate /\ rdInput /\ rdHasMethod
    /\ "title" \in rdTplVars /\ "title" \notin rdCtxKeys
    /\ rdOut0 = "old" /\ rdOut = "old"

(***************************************************************************)
(* Part VII : _archive/report_pdf_generator.py, main() and what it calls   *)
(***************************************************************************)

\* Largest modification time of a file that exists when the run starts.
MaxMtime == 2

\* The time at which this run writes its files.
Now == MaxMtime + 1

\* The Markdown reports of the reports directory.
Reports == {"r1", "r2"}

\* Order in which get_markdown_files lists them.
ReportList == <<"r1", "r2">>

\* The sections generate_css_from_config indexes with c[section][key].
ConfigSections ==
    {"content", "title_page", "toc", "images", "headers", "text",
     "bold_text", "figure_captions", "table", "table_cell",
     "table_header", "code", "pre", "blockquote", "page", "footer",
     "utilities"}

\* The keys generate_css_from_config reads from each section.
KeysRead(section) ==
    CASE section = "content" ->
           {"font_family", "font_size", "font_weight", "line_height",
            "color", "max_width", "margin", "padding"}
    [] section = "title_page" ->
           {"display", "justify_content", "align_items", "min_height",
            "text_align", "padding", "font_family", "font_size",
            "font_weight", "color", "margin", "line_height"}
    [] section = "toc" ->
           {"item_font_family", "title_font_size", "title_font_weight",
            "title_color", "title_margin_bottom", "title_text_align",
            "max_width", "margin", "list_style", "padding",
            "item_font_size", "item_font_weight", "item_margin",
            "item_line_height", "link_text_decoration", "link_color",
            "link_hover_color"}
    [] section = "images" ->
           {"max_width", "max_height", "display", "margin", "box_shadow"}
    [] section = "headers" ->
           {"font_family", "color", "margin_top", "margin_bottom",
            "font_weight", "line_height", "page_break_after"}
    [] section = "text" ->
           {"paragraph_margin_bottom", "orphans", "widows",
            "list_margin_bottom", "list_line_height"}
    [] section = "bold_text" ->
           {"font_family", "font_size", "font_weight", "color"}
    [] section = "figure_captions" ->
           {"font_family", "font_size", "font_weight", "font_style",
            "color", "margin_top", "margin_bottom"}
    [] section = "table" ->
           {"border_collapse", "width", "margin", "page_break_inside"}
    [] section = "table_cell" ->
           {"border", "padding", "word_wrap", "font_size", "color"}
    [] section = "table_header" ->
           {"background_color", "font_weight", "color"}
    [] section = "code" ->
           {"font_family", "background_color", "padding",
            "border_radius", "font_size", "color"}
    [] section = "pre" ->
           {"font_family", "background_color", "padding",
            "border_radius", "overflow_x", "page_break_inside",
            "font_size", "color"}
    [] section = "blockquote" ->
           {"border_left", "padding_left", "margin_left", "color",
            "page_break_inside"}
    [] section = "page" ->
           {"size", "margin_top", "margin_right", "margin_bottom",
            "margin_left"}
    [] section = "footer" ->
           {"content", "font_size", "color"}
    [] section = "utilities" ->
           {"page_break", "no_break"}
    [] OTHER -> {}

\* A loaded configuration: the section/key pairs it defines; none is TRUE
\* for the None that yaml.safe_load returns for an empty file.
Config(pairs) == [none |-> FALSE, pairs |-> pairs]
NoneConfig == [none |-> TRUE, pairs |-> {}]

\* get_default_config()
get_default_config ==
    Config(({"page"} \X {"size", "margin_top", "margin_bottom", "margin_left",
                         "margin_right"})
           \cup ({"title_page"} \X {"font_size", "color"})
           \cup ({"content"} \X {"font_family", "font_size", "color"})
           \cup ({"images"} \X {"max_width", "max_height"}))

\* A YAML file that defines everything the stylesheet reads.
CompleteConfig ==
    Config(UNION {{s} \X KeysRead(s) : s \in ConfigSections})

\* A YAML file that only sets the page geometry.
PartialConfig == Config({"page"} \X KeysRead("page"))

YamlStates == {"missing", "unreadable", "empty", "partial", "complete"}

\* load_config(config_file)
load_config(yaml) ==
    CASE yaml = "missing" -> get_default_config
      [] yaml = "unreadable" -> get_default_config
      [] yaml = "empty" -> NoneConfig
      [] yaml = "partial" -> PartialConfig
      [] yaml = "complete" -> CompleteConfig

\* generate_css_from_config(): the exception it raises, "none" if it returns.
generate_css_from_config(c) ==
    IF c.none THEN "AttributeError"
    ELSE IF \E s \in ConfigSections : \E k \in KeysRead(s) : <<s, k>> \notin c.pairs
    THEN "KeyError"
    ELSE "none"

\* The up-to-date test also accepts a PDF as old as the Markdown.
UpToDateOrEqual(pdf_mtime, md_mtime) == pdf_mtime >= md_mtime

\* pdf_mtime > md_mtime
UpToDate(pdf_mtime, md_mtime) == pdf_mtime > md_mtime

NoCall ==
    /\ callMd = "none"
    /\ callPdf0 = 0
    /\ callAttempted = FALSE
    /\ callTools = 0
    /\ callWrites = {}
    /\ callCssError = "none"
    /\ callResult = "none"

InitReport ==
    /\ argFilename \in {"none", "ghost"} \cup Reports
    /\ argWatch \in BOOLEAN
    /\ argForce \in BOOLEAN
    /\ argReportsDir \in {"none", "given"}
    /\ rgDirExists \in BOOLEAN
    /\ rgYaml \in YamlStates
    /\ rgMd \in [Reports -> 1..MaxMtime]
    /\ rgPdf \in [Reports -> 0..MaxMtime]
    /\ rgPc = "construct"
    /\ rgConfig = NoneConfig
    /\ rgQueue = <<>>
    /\ rgCalled = {}
    /\ rgError = "none"
    /\ rgStatus = -1
    /\ NoCall

\* main not run.
ReportOff ==
    /\ argFilename = "none" /\ argWatch = FALSE /\ argForce = FALSE
    /\ argReportsDir = "none" /\ rgDirExists = FALSE
    /\ rgYaml = "missing"
    /\ rgMd = [r \in Reports |-> 1]
    /\ rgPdf = [r \in Reports |-> 0]
    /\ InitReport

\* generator = ReportPDFGenerator(args.reports_dir, args.config_file)
RGConstruct ==
    /\ ReportFrame
    /\ rgPc = "construct"
    /\ IF argReportsDir = "none"
       THEN /\ rgError' = "ValueError"
            /\ rgPc' = "handler"
            /\ UNCHANGED rgConfig
       ELSE /\ rgConfig' = load_config(rgYaml)
            /\ IF rgDirExists
               THEN rgPc' = "dispatch" /\ UNCHANGED rgError
               ELSE rgPc' = "handler" /\ rgError' = "FileNotFoundError"
    /\ UNCHANGED <<rgEnv, rgPdf, rgQueue, rgCalled, rgStatus, callVars>>

\* A call convert_to_pdf(md_file, force) begins.
BeginCall(r) ==
    /\ callMd' = r
    /\ callPdf0' = (IF r \in Reports THEN rgPdf[r] ELSE 0)
    /\ callAttempted' = FALSE
    /\ callTools' = 0
    /\ callWrites' = {}
    /\ callCssError' = "none"
    /\ callResult' = "none"
    /\ rgCalled' = rgCalled \cup {r}

\* The if / elif / else of main; convert_all_reports up to its loop.
RGDispatch ==
    /\ ReportFrame
    /\ rgPc = "dispatch"
    /\ IF argWatch
       THEN /\ rgPc' = "watch"
            /\ UNCHANGED <<rgQueue, rgCalled, callVars>>
       ELSE IF argFilename # "none"
       THEN /\ BeginCall(argFilename)
            /\ rgPc' = "check"
            /\ UNCHANGED rgQueue
       ELSE /\ rgQueue' = ReportList
            /\ rgPc' = "next"
            /\ UNCHANGED <<rgCalled, callVars>>
    /\ UNCHANGED <<rgEnv, rgPdf, rgConfig, rgError, rgStatus>>

\* for md_file in md_files: self.convert_to_pdf(md_file, force); after the
\* loop convert_all_reports returns and main ends with status 0.
RGNextFile ==
    /\ ReportFrame
    /\ rgPc = "next"
    /\ IF rgQueue = <<>>
       THEN /\ rgPc' = "exited"
            /\ rgStatus' = 0
            /\ UNCHANGED <<rgQueue, rgCalled, callVars>>
       ELSE /\ BeginCall(Head(rgQueue))
            /\ rgQueue' = Tail(rgQueue)
            /\ rgPc' = "check"
            /\ UNCHANGED rgStatus
    /\ UNCHANGED <<rgEnv, rgPdf, rgConfig, rgError>>

\* convert_to_pdf up to the try block: the file must exist; without force a
\* PDF newer than the Markdown ends the call.
RGConvertCheck ==
    /\ ReportFrame
    /\ rgPc = "check"
    /\ IF callMd \notin Reports
       THEN /\ callResult' = "False"
            /\ rgPc' = "after"
            /\ UNCHANGED callAttempted
       ELSE IF ~argForce /\ rgPdf[callMd] # 0 /\ UpToDate(rgPdf[callMd], rgMd[callMd])
       THEN /\ callResult' = "True"
            /\ rgPc' = "after"
            /\ UNCHANGED callAttempted
       ELSE /\ callAttempted' = TRUE
            /\ rgPc' = "css"
            /\ UNCHANGED callResult
    /\ UNCHANGED <<rgEnv, rgPdf, rgConfig, rgQueue, rgCalled, rgError, rgStatus,
                   callMd, callPdf0, callTools, callWrites, callCssError>>

\* css_content = self.generate_css_from_config(); the CSS file is written.
\* An exception is caught by the except clause of convert_to_pdf.
RGConvertCss ==
    /\ ReportFrame
    /\ rgPc = "css"
    /\ LET e == generate_css_from_config(rgConfig) IN
         IF e # "none"
         THEN /\ callCssError' = e
              /\ callResult' = "False"
              /\ rgPc' = "after"
              /\ UNCHANGED callWrites
         ELSE /\ callWrites' = callWrites \cup {"css"}
              /\ rgPc' = "html"
              /\ UNCHANGED <<callCssError, callResult>>
    /\ UNCHANGED <<rgEnv, rgPdf, rgConfig, rgQueue, rgCalled, rgError, rgStatus,
                   callMd, callPdf0, callAttempted, callTools>>

\* pandoc to HTML and the post-processing of the HTML.
HtmlOutcomes == {"ok", "nonzero", "not_started", "postprocess_raises"}

RGConvertHtml(o) ==
    /\ ReportFrame
    /\ rgPc = "html"
    /\ callTools' = (IF o = "not_started" THEN callTools ELSE callTools + 1)
    /\ callWrites' = (IF o \in {"ok", "postprocess_raises"}
                      THEN callWrites \cup {"html"} ELSE callWrites)
    /\ IF o = "ok"
       THEN rgPc' = "pdf" /\ UNCHANGED callResult
       ELSE rgPc' = "after" /\ callResult' = "False"
    /\ UNCHANGED <<rgEnv, rgPdf, rgConfig, rgQueue, rgCalled, rgError, rgStatus,
                   callMd, callPdf0, callAttempted, callCssError>>

\* HTML(...).write_pdf(pdf_file): it writes the PDF, or WeasyPrint is
\* missing or fails and the HTML is kept.
RGConvertPdf(ok) ==
    /\ ReportFrame
    /\ rgPc = "pdf"
    /\ IF ok
       THEN /\ rgPdf' = [rgPdf EXCEPT ![callMd] = Now]
            /\ callWrites' = callWrites \cup {"pdf"}
            /\ callResult' = "True"
       ELSE /\ callResult' = "False"
            /\ UNCHANGED <<rgPdf, callWrites>>
    /\ rgPc' = "after"
    /\ UNCHANGED <<rgEnv, rgConfig, rgQueue, rgCalled, rgError, rgStatus,
                   callMd, callPdf0, callAttempted, callTools, callCssError>>

\* The caller of convert_to_pdf goes on: main exits with the result of a
\* single conversion, convert_all_reports counts it and takes the next file.
RGAfterConvert ==
    /\ ReportFrame
    /\ rgPc = "after"
    /\ IF argFilename # "none"
       THEN /\ rgStatus' = (IF callResult = "True" THEN 0 ELSE 1)
            /\ rgPc' = "exited"
       ELSE /\ rgPc' = "next"
            /\ UNCHANGED rgStatus
    /\ UNCHANGED <<rgEnv, rgPdf, rgConfig, rgQueue, rgCalled, rgError, callVars>>

\* except Exception as e: print; sys.exit(1)
RGHandler ==
    /\ ReportFrame
    /\ rgPc = "handler"
    /\ rgStatus' = 1
    /\ rgPc' = "exited"
    /\ UNCHANGED <<rgEnv, rgPdf, rgConfig, rgQueue, rgCalled, rgError, callVars>>

NextReport ==
    \/ RGConstruct
    \/ RGDispatch
    \/ RGNextFile
    \/ RGConvertCheck
    \/ RGConvertCss
    \/ \E o \in HtmlOutcomes : RGConvertHtml(o)
    \/ \E ok \in BOOLEAN : RGConvertPdf(ok)
    \/ RGAfterConvert
    \/ RGHandler

\* C13: run with no filename and without --watch, the generator calls
\* convert_to_pdf for every Markdown report of the reports directory and
\* ends with status 0, the directory being ../reports when --reports-dir is
\* not given.
C13_ConvertsAllByDefault ==
    (rgPc = "exited" /\ argFilename = "none" /\ ~argWatch /\ rgDirExists)
        => (rgCalled = Reports /\ rgStatus = 0)

\* C14: when the YAML file is missing or cannot be loaded the configuration
\* is get_default_config(), and with it generate_css_from_config finds every
\* key it reads, so that no conversion fails for lack of configuration.
C14_DefaultConfigSuffices ==
    (rgYaml \in {"missing", "unreadable"} /\ rgPc \notin {"construct", "handler"}
         /\ rgError = "none")
        => (rgConfig = get_default_config /\ callCssError = "none")

MaxWatchMtime == 3

\* md_files, as get_markdown_files listed them when monitoring began.
WatchFiles == <<"r1", "r2">>

WatchSet == {WatchFiles[i] : i \in 1..Len(WatchFiles)}

\* The modification time is read again once the conversion is over.
RecordedAfter(current_mtime, mtime_now) == mtime_now

\* last_modified[md_file] = current_mtime
Recorded(current_mtime, mtime_now) == current_mtime

\* watch_and_convert up to the loop: last_modified[f] = f.stat().st_mtime
InitWatch ==
    /\ wExists = [f \in WatchSet |-> TRUE]
    /\ wMtime = [f \in WatchSet |-> 1]
    /\ wLast = wMtime
    /\ wPc = "sleep"
    /\ wIdx = 1
    /\ wCur = 0
    /\ wConvStart = [f \in WatchSet |-> 0]
    /\ wConvs = [f \in WatchSet |-> 0]
    /\ wModDuring = {}

WatchOff == InitWatch

\* Somebody saves a monitored file: its modification time grows.
WModify(f) ==
    /\ WatchFrame
    /\ wPc # "stopped"
    /\ wExists[f]
    /\ wMtime[f] < MaxWatchMtime
    /\ wMtime' = [wMtime EXCEPT ![f] = @ + 1]
    /\ wModDuring' = (IF wPc = "converting" /\ WatchFiles[wIdx] = f
                      THEN wModDuring \cup {f} ELSE wModDuring)
    /\ UNCHANGED <<wExists, wLast, wPc, wIdx, wCur, wConvStart, wConvs>>

\* Somebody deletes a monitored file.
WDelete(f) ==
    /\ WatchFrame
    /\ wPc \in {"sleep", "scan"}
    /\ wExists[f]
    /\ wExists' = [wExists EXCEPT ![f] = FALSE]
    /\ UNCHANGED <<wMtime, wLast, wPc, wIdx, wCur, wConvStart, wConvs, wModDuring>>

\* time.sleep(1) returns and the for loop begins.
WWake ==
    /\ WatchFrame
    /\ wPc = "sleep"
    /\ wPc' = "scan"
    /\ wIdx' = 1
    /\ UNCHANGED <<wExists, wMtime, wLast, wCur, wConvStart, wConvs, wModDuring>>

\* One iteration of the for loop up to the comparison with last_modified.
WScan ==
    /\ WatchFrame
    /\ wPc = "scan"
    /\ IF wIdx > Len(WatchFiles)
       THEN /\ wPc' = "sleep"
            /\ UNCHANGED <<wIdx, wCur>>
       ELSE LET f == WatchFiles[wIdx] IN
            IF ~wExists[f]
            THEN /\ wIdx' = wIdx + 1
                 /\ UNCHANGED <<wPc, wCur>>
            ELSE /\ wCur' = wMtime[f]
                 /\ IF wMtime[f] > wLast[f]
                    THEN wPc' = "detected" /\ UNCHANGED wIdx
                    ELSE wIdx' = wIdx + 1 /\ UNCHANGED wPc
    /\ UNCHANGED <<wExists, wMtime, wLast, wConvStart, wConvs, wModDuring>>

\* self.convert_to_pdf(md_file, force=True) is called and begins to convert
\* the file as it is now.
WConvertBegin ==
    /\ WatchFrame
    /\ wPc = "detected"
    /\ LET f == WatchFiles[wIdx] IN
         /\ wConvStart' = [wConvStart EXCEPT ![f] = wMtime[f]]
         /\ wConvs' = [wConvs EXCEPT ![f] = @ + 1]
    /\ wPc' = "converting"
    /\ UNCHANGED <<wExists, wMtime, wLast, wIdx, wCur, wModDuring>>

\* convert_to_pdf returns (True or False); last_modified[md_file] = current_mtime
WConvertEnd ==
    /\ WatchFrame
    /\ wPc = "converting"
    /\ LET f == WatchFiles[wIdx] IN
         wLast' = [wLast EXCEPT ![f] = Recorded(wCur, wMtime[f])]
    /\ wIdx' = wIdx + 1
    /\ wPc' = "scan"
    /\ UNCHANGED <<wExists, wMtime, wCur, wConvStart, wConvs, wModDuring>>

\* Ctrl+C: except KeyboardInterrupt ends the monitoring.
WInterrupt ==
    /\ WatchFrame
    /\ wPc # "stopped"
    /\ wPc' = "stopped"
    /\ UNCHANGED <<wExists, wMtime, wLast, wIdx, wCur, wConvStart, wConvs, wModDuring>>

\* The steps of the monitoring thread itself.
WatcherStep == WWake \/ WScan \/ WConvertBegin \/ WConvertEnd

NextWatch ==
    \/ \E f \in WatchSet : WModify(f)
    \/ \E f \in WatchSet : WDelete(f)
    \/ WWake
    \/ WScan
    \/ WConvertBegin
    \/ WConvertEnd
    \/ WInterrupt

\* C16: in watch mode every modification of a monitored file, that is every
\* rise of its modification time above the recorded one, is eventually
\* followed by a conversion of that file that begins after the modification,
\* also when the modification falls into a running conversion of the same
\* file, as long as the file exists and the monitoring is not interrupted.
C16_ModificationLeadsToConversion ==
    \A f \in WatchSet : \A m \in 1..MaxWatchMtime :
        (wExists[f] /\ wMtime[f] = m /\ m > wLast[f])
            ~> (wConvStart[f] >= m \/ ~wExists[f] \/ wPc = "stopped")

\* A file was modified while its own conversion was running and a second
\* conversion, begun after that modification, has finished.
C16_Witness ==
    /\ "r1" \in wModDuring
    /\ wConvs["r1"] >= 2
    /\ wConvStart["r1"] = wMtime["r1"]
    /\ wLast["r1"] = wMtime["r1"]
    /\ wPc = "sleep"

(***************************************************************************)
(* Part IX : pandoc-stack-examples/src/p4_combine_articles_to_pdf.py,      *)
(* create_combined_markdown                                                *)
(***************************************************************************)

\* Largest number of .md files in the articles directory.
MaxArticles == 3

\* A file of the directory: its name starts with a date or not, and it can
\* be read or not.
ArticleKinds == {"ok", "no_date", "unreadable"}

\* parse_filename(file_path.name): both patterns need the leading date.
parse_filename(kind) ==
    IF kind = "no_date" THEN Raises("ValueError", "Could not parse date from filename")
    ELSE Returns("date_title")

\* extract_article_content(file_path)
extract_article_content(kind) ==
    IF kind = "unreadable" THEN Raises("OSError", "cannot read")
    ELSE Returns("content")

\* An element of combined_content; art is the index of the article it
\* belongs to, 0 for the document header.
Line(kind, art) == [kind |-> kind, art |-> art]

\* The five lines of the document title.
TitleLines ==
    <<Line("title", 0), Line("subtitle", 0), Line("blank", 0),
      Line("newpage", 0), Line("blank", 0)>>

\* if i < len(md_files) - 1, with i counted from 0
NotLastFile(i, n) == i - 1 < n - 1

InitCombine ==
    /\ cmFiles \in UNION {[1..n -> ArticleKinds] : n \in 0..MaxArticles}
    /\ cmI = 1
    /\ cmOut = <<>>
    /\ cmPc = "start"
    /\ cmSkipped = {}

\* create_combined_markdown not called, the directory empty.
CombineOff ==
    /\ cmFiles = <<>>
    /\ InitCombine

\* md_files = sorted(glob); the check for no files; the title lines.
CMStart ==
    /\ CombineFrame
    /\ cmPc = "start"
    /\ IF Len(cmFiles) = 0
       THEN cmPc' = "raised" /\ UNCHANGED cmOut
       ELSE cmPc' = "loop" /\ cmOut' = TitleLines
    /\ UNCHANGED <<cmFiles, cmI, cmSkipped>>

\* One iteration of the for loop: the try block, or its except clause.
CMArticle ==
    /\ CombineFrame
    /\ cmPc = "loop"
    /\ cmI <= Len(cmFiles)
    /\ LET kind == cmFiles[cmI]
           parsed == parse_filename(kind)
           content == extract_article_content(kind)
           section == <<Line("h1", cmI), Line("h2", cmI), Line("blank", cmI),
                        Line("content", cmI)>>
           break == <<Line("blank", cmI), Line("newpage", cmI), Line("blank", cmI)>>
       IN IF parsed.exc # NoError \/ content.exc # NoError
          THEN /\ cmSkipped' = cmSkipped \cup {cmI}
               /\ UNCHANGED cmOut
          ELSE /\ cmOut' = cmOut \o section
                             \o (IF NotLastFile(cmI, Len(cmFiles)) THEN break ELSE <<>>)
               /\ UNCHANGED cmSkipped
    /\ cmI' = cmI + 1
    /\ UNCHANGED <<cmFiles, cmPc>>

\* return "\n".join(combined_content)
CMReturn ==
    /\ CombineFrame
    /\ cmPc = "loop"
    /\ cmI > Len(cmFiles)
    /\ cmPc' = "returned"
    /\ UNCHANGED <<cmFiles, cmI, cmOut, cmSkipped>>

NextCombine ==
    \/ CMStart
    \/ CMArticle
    \/ CMReturn

\* Positions of the included articles' contents in the output.
ContentAt == {p \in 1..Len(cmOut) : cmOut[p].kind = "content"}

\* C17: in the returned document a \newpage stands between every two
\* consecutive included articles and none follows the last included article,
\* whichever files were skipped because their processing raised.
C17_NewpageOnlyBetweenArticles ==
    cmPc = "returned" =>
        /\ \A p, q \in ContentAt :
               (p < q /\ ~\E r \in ContentAt : p < r /\ r < q)
                   => \E n \in (p + 1)..(q - 1) : cmOut[n].kind = "newpage"
        /\ \A p \in ContentAt :
               (\A q \in ContentAt : q <= p)
                   => \A n \in (p + 1)..Len(cmOut) : cmOut[n].kind # "newpage"

(***************************************************************************)
(* Part X : docx-stack-examples/src/a5_python_docx_only.py, parse_markdown *)
(***************************************************************************)

\* Largest number of lines of the Markdown text.
MaxLines == 3

\* A line: ind says it begins with blanks, start is what its stripped text
\* begins with, hashes the number of '#' of a heading.
MdLine(ind, start, hashes) == [ind |-> ind, start |-> start, hashes |-> hashes]

\* The lines "", "word", "# T", "## T", "  # T", "#tag", "1. item", "- item",
\* a code fence (three backquotes, written "<fence>") and "---".
MdLines ==
    {MdLine(FALSE, "", 0), MdLine(FALSE, "word", 0),
     MdLine(FALSE, "# ", 1), MdLine(FALSE, "# ", 2), MdLine(TRUE, "# ", 1),
     MdLine(FALSE, "#tag", 0), MdLine(FALSE, "1. ", 0), MdLine(FALSE, "- ", 0),
     MdLine(FALSE, "<fence>", 0), MdLine(FALSE, "---", 0)}

\* lines[i].strip()
StripLine(l) == [l EXCEPT !.ind = FALSE]

\* lines[i].startswith('#'), on the line as it is
RawStartsWithHash(l) == ~l.ind /\ l.start \in {"# ", "#tag"}

\* lines[i].startswith('```'), on the line as it is
RawStartsWithFence(l) == ~l.ind /\ l.start = "<fence>"

\* re.match(r'^#{1,6}\s+(.+)$', line)
HeaderMatch(line) == line.start = "# " /\ line.hashes \in 1..6

\* re.match(r'^\d+\.\s+', line)
OrderedMatch(line) == line.start = "1. "

\* The markers handed to _parse_list; both callers pass Python strings.
StrMarker(text) == [isStr |-> TRUE, text |-> text]
UnorderedMarkers == <<StrMarker("* "), StrMarker("- ")>>
OrderedMarkers == <<StrMarker("^\\d+\\.\\s+")>>

\* The for loop of _parse_list: a str marker is tested with startswith, any
\* other marker with re.match.
IsListItem(line, markers) ==
    \E k \in 1..Len(markers) :
        IF markers[k].isStr
        THEN line.start = markers[k].text
        ELSE OrderedMatch(line)

\* An element of the result; src is the index of the line it came from.
Element(type, level, src) == [type |-> type, level |-> level, src |-> src]

RECURSIVE ParseListFrom(_, _, _)
\* _parse_list(lines, start_idx, markers)
ParseListFrom(lines, i, markers) ==
    IF i <= Len(lines) /\ IsListItem(StripLine(lines[i]), markers)
    THEN <<Element("list_item", 0, i)>> \o ParseListFrom(lines, i + 1, markers)
    ELSE <<>>

RECURSIVE CodeBlockEnd(_, _)
\* The while loop of _parse_code_block: the index at which it stops.
CodeBlockEnd(lines, j) ==
    IF j <= Len(lines) /\ ~RawStartsWithFence(lines[j])
    THEN CodeBlockEnd(lines, j + 1)
    ELSE j

RECURSIVE ParagraphEnd(_, _)
\* The while loop of the paragraph branch: the index at which it stops.
ParagraphEnd(lines, j) ==
    IF j <= Len(lines) /\ StripLine(lines[j]).start # ""
       /\ ~RawStartsWithHash(lines[j]) /\ ~RawStartsWithFence(lines[j])
    THEN IF j + 1 <= Len(lines) /\ StripLine(lines[j + 1]).start = ""
         THEN j + 1
         ELSE ParagraphEnd(lines, j + 1)
    ELSE j

InitToken ==
    /\ tkLines \in UNION {[1..n -> MdLines] : n \in 0..MaxLines}
    /\ tkI = 1
    /\ tkElements = <<>>
    /\ tkReached = {}
    /\ tkPc = "loop"

\* parse_markdown not called.
TokenOff ==
    /\ tkLines = <<>>
    /\ InitToken

\* line = lines[i].strip() of the iteration that begins now.
TkLine == StripLine(tkLines[tkI])

TkInLoop == tkPc = "loop" /\ tkI <= Len(tkLines)

\* if line == '---' and i == 0: the frontmatter elements carry no
\* 'lines_consumed', so i advances by one.
TKFrontmatter ==
    /\ TokenFrame
    /\ TkInLoop
    /\ TkLine.start = "---" /\ tkI = 1
    /\ tkI' = tkI + 1
    /\ tkReached' = tkReached \cup {tkI}
    /\ UNCHANGED <<tkLines, tkElements, tkPc>>

\* if line.startswith('#'): a heading if the pattern matches, else nothing.
TKHeading ==
    /\ TokenFrame
    /\ TkInLoop
    /\ ~(TkLine.start = "---" /\ tkI = 1)
    /\ TkLine.start \in {"# ", "#tag"}
    /\ tkElements' = (IF HeaderMatch(TkLine)
                      THEN Append(tkElements, Element("heading", TkLine.hashes, tkI))
                      ELSE tkElements)
    /\ tkI' = tkI + 1
    /\ tkReached' = tkReached \cup {tkI}
    /\ UNCHANGED <<tkLines, tkPc>>

\* elif line.startswith('```')
TKCodeBlock ==
    /\ TokenFrame
    /\ TkInLoop
    /\ TkLine.start = "<fence>"
    /\ LET end == CodeBlockEnd(tkLines, tkI + 1) IN
         IF RawStartsWithFence(tkLines[tkI]) /\ end > tkI + 1
         THEN /\ tkElements' = Append(tkElements, Element("code_block", 0, tkI))
              /\ tkI' = tkI + (end - tkI + 1)
         ELSE /\ tkI' = tkI + 1
              /\ UNCHANGED tkElements
    /\ tkReached' = tkReached \cup {tkI}
    /\ UNCHANGED <<tkLines, tkPc>>

\* A list branch: the items of _parse_list are appended and i advances by
\* their number; with no item the iteration changes nothing and repeats.
ListBranch(markers) ==
    LET list_items == ParseListFrom(tkLines, tkI, markers) IN
        /\ tkElements' = tkElements \o list_items
        /\ tkI' = tkI + Len(list_items)
        /\ tkPc' = (IF Len(list_items) = 0 THEN "hang" ELSE tkPc)
        /\ tkReached' = tkReached \cup {tkI}
        /\ UNCHANGED tkLines

\* elif line.startswith(('* ', '- '))
TKUnordered ==
    /\ TokenFrame
    /\ TkInLoop
    /\ TkLine.start = "- "
    /\ ListBranch(UnorderedMarkers)

\* elif re.match(r'^\d+\.\s+', line)
TKOrdered ==
    /\ TokenFrame
    /\ TkInLoop
    /\ OrderedMatch(TkLine)
    /\ ListBranch(OrderedMarkers)

\* elif not line: pass
TKBlank ==
    /\ TokenFrame
    /\ TkInLoop
    /\ TkLine.start = ""
    /\ tkI' = tkI + 1
    /\ tkReached' = tkReached \cup {tkI}
    /\ UNCHANGED <<tkLines, tkElements, tkPc>>

\* else: the paragraph is accumulated, then the i += 1 that ends every
\* iteration is executed as well.
TKParagraph ==
    /\ TokenFrame
    /\ TkInLoop
    /\ \/ TkLine.start = "word"
       \/ (TkLine.start = "---" /\ tkI # 1)
    /\ LET end == ParagraphEnd(tkLines, tkI) IN
         /\ tkElements' = Append(tkElements, Element("paragraph", 0, tkI))
         /\ tkI' = end + 1
    /\ tkReached' = tkReached \cup {tkI}
    /\ UNCHANGED <<tkLines, tkPc>>

\* return elements
TKReturn ==
    /\ TokenFrame
    /\ tkPc = "loop"
    /\ tkI > Len(tkLines)
    /\ tkPc' = "returned"
    /\ UNCHANGED <<tkLines, tkI, tkElements, tkReached>>

NextToken ==
    \/ TKFrontmatter
    \/ TKHeading
    \/ TKCodeBlock
    \/ TKUnordered
    \/ TKOrdered
    \/ TKBlank
    \/ TKParagraph
    \/ TKReturn

\* The elements that came from line i.
ElementsOf(i) == {k \in 1..Len(tkElements) : tkElements[k].src = i}

\* C18: an ordered-list line that the main loop reaches is consumed, the
\* loop going on past it, and yields one list_item; the items of a run
\* appear in the order of their lines.
C18_OrderedListParsed ==
    /\ tkPc # "hang"
    /\ \A i \in tkReached :
           (OrderedMatch(StripLine(tkLines[i])) /\ tkI > i)
               => \E k \in ElementsOf(i) : tkElements[k].type = "list_item"
    /\ \A k, m \in 1..Len(tkElements) :
           (k < m /\ tkElements[k].type = "list_item" /\ tkElements[m].type = "list_item")
               => tkElements[k].src < tkElements[m].src

\* Line i lies between an opening fence and its closing fence, or is one.
InFence(i) ==
    \/ tkLines[i].start = "<fence>"
    \/ Cardinality({j \in 1..(i - 1) : tkLines[j].start = "<fence>"}) % 2 = 1

\* The text has no frontmatter: it does not open with '---'.
NoFrontmatter == Len(tkLines) = 0 \/ tkLines[1].start # "---"

\* C19: once parse_markdown has returned, every line outside frontmatter
\* and fenced code whose stripped text is one to six '#', blanks and a title
\* has given exactly one heading element, of level the number of '#',
\* whatever the line before it is.
C19_EveryHeadingLineYieldsHeading ==
    (tkPc = "returned" /\ NoFrontmatter) =>
        \A i \in 1..Len(tkLines) :
            (HeaderMatch(StripLine(tkLines[i])) /\ ~InFence(i))
                => /\ Cardinality(ElementsOf(i)) = 1
                   /\ \A k \in ElementsOf(i) :
                          /\ tkElements[k].type = "heading"
                          /\ tkElements[k].level = tkLines[i].hashes

(***************************************************************************)
(* Part XI : docx-stack-examples/tools/run_all.py                          *)
(***************************************************************************)

\* The scripts run_all.py starts, in order.
EXAMPLES ==
    <<"a1_docxtpl_basic.py", "a2_richtext.py", "a3_images.py",
      "a5_python_docx_only.py", "a6_docxtpl_advanced.py">>

\* Exit statuses of an example: success, and a failure.
ReturnCodes == {0, 1}

\* The message printed for one example.
ExampleMessage(returncode) == IF returncode = 0 THEN "ok" ELSE "error"

\* "Tutti gli esempi completati con successo!"
AllDone == "all_done"

InitRunAll ==
    /\ raIdx = 1
    /\ raCodes = <<>>
    /\ raPrinted = <<>>
    /\ raPc = "running"
    /\ raStatus = -1

RunAllOff == InitRunAll

\* resultN = subprocess.run([...]); the if / else that reports it.
RARun(returncode) ==
    /\ RunAllFrame
    /\ raPc = "running"
    /\ raIdx <= Len(EXAMPLES)
    /\ raCodes' = Append(raCodes, returncode)
    /\ raPrinted' = Append(raPrinted, ExampleMessage(returncode))
    /\ raIdx' = raIdx + 1
    /\ UNCHANGED <<raPc, raStatus>>

\* subprocess.run raises (conda cannot be started): except Exception.
RARunRaises ==
    /\ RunAllFrame
    /\ raPc = "running"
    /\ raIdx <= Len(EXAMPLES)
    /\ raPc' = "handler"
    /\ UNCHANGED <<raIdx, raCodes, raPrinted, raStatus>>

\* The final print; the script ends and the interpreter exits with 0.
RAFinish ==
    /\ RunAllFrame
    /\ raPc = "running"
    /\ raIdx > Len(EXAMPLES)
    /\ raPrinted' = Append(raPrinted, AllDone)
    /\ raStatus' = 0
    /\ raPc' = "exited"
    /\ UNCHANGED <<raIdx, raCodes>>

\* print(error); sys.exit(1)
RAHandler ==
    /\ RunAllFrame
    /\ raPc = "handler"
    /\ raPrinted' = Append(raPrinted, "exception")
    /\ raStatus' = 1
    /\ raPc' = "exited"
    /\ UNCHANGED <<raIdx, raCodes>>

NextRunAll ==
    \/ \E returncode \in ReturnCodes : RARun(returncode)
    \/ RARunRaises
    \/ RAFinish
    \/ RAHandler

\* C20: run_all.py reports overall success, by its final message or by exit
\* status 0, only if every example it started exited with status 0.
C20_SuccessOnlyIfAllSucceeded ==
    (raPc = "exited"
        /\ (raStatus = 0 \/ \E k \in 1..Len(raPrinted) : raPrinted[k] = AllDone))
        => /\ Len(raCodes) = Len(EXAMPLES)
           /\ \A k \in 1..Len(raCodes) : raCodes[k] = 0

(***************************************************************************)
(* Specifications                                                          *)
(***************************************************************************)

InitSpecBatch ==
    /\ GoldenOff /\ A6Off /\ LOOff /\ RenderOff /\ ReportOff /\ WatchOff
    /\ CombineOff /\ TokenOff /\ RunAllOff /\ InitBatch /\ InitEntry
SpecBatch == InitSpecBatch /\ [][NextBatch]_vars

InitSpecEntry ==
    /\ BatchOff /\ GoldenOff /\ A6Off /\ LOOff /\ RenderOff /\ ReportOff
    /\ WatchOff /\ CombineOff /\ TokenOff /\ RunAllOff /\ InitEntry
SpecEntry == InitSpecEntry /\ [][NextEntry]_vars

InitSpecGolden ==
    /\ BatchOff /\ A6Off /\ LOOff /\ RenderOff /\ ReportOff /\ WatchOff
    /\ CombineOff /\ TokenOff /\ RunAllOff /\ InitEntry /\ InitGolden
SpecGolden == InitSpecGolden /\ [][NextGolden]_vars

InitSpecA6 ==
    /\ BatchOff /\ GoldenOff /\ LOOff /\ RenderOff /\ ReportOff /\ WatchOff
    /\ CombineOff /\ TokenOff /\ RunAllOff /\ InitEntry /\ InitA6
SpecA6 == InitSpecA6 /\ [][NextA6]_vars

InitSpecLO ==
    /\ BatchOff /\ GoldenOff /\ A6Off /\ RenderOff /\ ReportOff /\ WatchOff
    /\ CombineOff /\ TokenOff /\ RunAllOff /\ InitEntry /\ InitLO
SpecLO == InitSpecLO /\ [][NextLO]_vars

InitSpecRender ==
    /\ BatchOff /\ GoldenOff /\ A6Off /\ LOOff /\ ReportOff /\ WatchOff
    /\ CombineOff /\ TokenOff /\ RunAllOff /\ InitEntry /\ InitRender
SpecRender == InitSpecRender /\ [][NextRender]_vars

InitSpecReport ==
    /\ BatchOff /\ GoldenOff /\ A6Off /\ LOOff /\ RenderOff /\ WatchOff
    /\ CombineOff /\ TokenOff /\ RunAllOff /\ InitEntry /\ InitReport
SpecReport == InitSpecReport /\ [][NextReport]_vars

InitSpecWatch ==
    /\ BatchOff /\ GoldenOff /\ A6Off /\ LOOff /\ RenderOff /\ ReportOff
    /\ CombineOff /\ TokenOff /\ RunAllOff /\ InitEntry /\ InitWatch
SpecWatch == InitSpecWatch /\ [][NextWatch]_vars /\ WF_vars(WatcherStep)

InitSpecCombine ==
    /\ BatchOff /\ GoldenOff /\ A6Off /\ LOOff /\ RenderOff /\ ReportOff
    /\ WatchOff /\ TokenOff /\ RunAllOff /\ InitEntry /\ InitCombine
SpecCombine == InitSpecCombine /\ [][NextCombine]_vars

InitSpecToken ==
    /\ BatchOff /\ GoldenOff /\ A6Off /\ LOOff /\ RenderOff /\ ReportOff
    /\ WatchOff /\ CombineOff /\ RunAllOff /\ InitEntry /\ InitToken
SpecToken == InitSpecToken /\ [][NextToken]_vars

InitSpecRunAll ==
    /\ BatchOff /\ GoldenOff /\ A6Off /\ LOOff /\ RenderOff /\ ReportOff
    /\ WatchOff /\ CombineOff /\ TokenOff /\ InitEntry /\ InitRunAll
SpecRunAll == InitSpecRunAll /\ [][NextRunAll]_vars

(***************************************************************************)
(* Claims about batch_convert_documents                                    *)
(***************************************************************************)

RECURSIVE Count(_, _)
Count(seq, x) ==
    IF seq = <<>> THEN 0
    ELSE (IF Head(seq) = x THEN 1 ELSE 0) + Count(Tail(seq), x)

TaskOutput(t) == OutputFile(TaskInput(t), TaskFormat(t))
Succeeded == { t \in Submitted : fstate[t] = "finished" /\ fexc[t] = "none" }
Failed    == { t \in Submitted : fstate[t] = "finished" /\ fexc[t] # "none" }

\* C1: when batch_convert_documents has returned, the returned list holds the
\* output path of every task whose converter exited with status 0 exactly once,
\* holds no path of a failed task, and holds nothing else, whatever the order in
\* which the workers ran and completed.
C1_ReturnsExactlySuccessful ==
    pcMain = "done" =>
        /\ \A t \in Succeeded : Count(all_outputs, TaskOutput(t)) = 1
        /\ \A t \in Failed : Count(all_outputs, TaskOutput(t)) = 0
        /\ \A i \in DOMAIN all_outputs :
               \E t \in Succeeded : all_outputs[i] = TaskOutput(t)
        /\ Len(all_outputs) = Cardinality(Succeeded)

C1_Witness ==
    /\ pcMain = "done"
    /\ Cardinality(Succeeded) >= 2
    /\ Cardinality(Failed) >= 2
    /\ Len(all_outputs) >= 2
    /\ all_outputs[1] = TaskOutput(<<2, 3>>)

\* C2: the converter is never invoked more than once for a pair, never for a pair
\* whose input file is missing, and once batch_convert_documents has returned it
\* has been invoked exactly once for every pair whose input file exists, whether
\* the invocation succeeded or failed.
C2_NoRetry ==
    \A t \in Tasks :
        /\ calls[t] <= 1
        /\ ~exists[TaskInput(t)] => calls[t] = 0
        /\ (pcMain = "done" /\ exists[TaskInput(t)]) => calls[t] = 1

C2_Witness ==
    /\ pcMain = "done"
    /\ \E t \in Tasks : ~exists[TaskInput(t)] /\ calls[t] = 0
    /\ \E t \in Failed : calls[t] = 1
    /\ \E t \in Succeeded : calls[t] = 1

\* Steps the run still has to take; every step of the run lowers it.
Measure ==
    (CASE pcMain = "for_conv"   -> 10 * (Len(CONVERSIONS) + 1 - ci) + 5
       [] pcMain = "for_output" -> 10 * (Len(CONVERSIONS) + 1 - ci)
                                     + (Len(CONVERSIONS[ci].outputs) + 1 - oi)
       [] pcMain = "collect"    -> 1
       [] OTHER                 -> 0)
    + 2 * Cardinality({ t \in Tasks : fstate[t] \in {"none", "pending"} })
    + Cardinality(Running)
    + Cardinality(Tasks \ yielded)

C3_StateOk ==
    /\ pcMain # "raised"
    /\ raised = "none"
    /\ pcMain = "done" \/ ENABLED NextBatch
    /\ pcMain = "done" =>
           \A t \in Tasks :
               exists[TaskInput(t)] =>
                   /\ fstate[t] = "finished"
                   /\ calls[t] = 1
                   /\ t \in yielded

\* C3: batch_convert_documents terminates and returns normally: no exception
\* ever leaves it, it is never stuck before it has returned, every step brings
\* it closer to returning, and when it has returned every submitted task has run
\* and has been collected, also when other tasks raised.
C3_TerminatesNormally ==
    /\ []C3_StateOk
    /\ [][Measure' < Measure]_vars

C3_Witness ==
    /\ pcMain = "done"
    /\ \E t \in Failed : fexc[t] = "FileNotFoundError"
    /\ \E t \in Failed : fexc[t] = "CalledProcessError"
    /\ \E t \in Succeeded : t \in yielded
    /\ Cardinality(yielded) = Cardinality(Tasks)

\* C4: no two tasks are given the same output file, and every append to the
\* result list is made by the thread that called batch_convert_documents.
C4_NoSharedMutableState ==
    /\ \A w1 \in writers : \A w2 \in writers : w1[1] = w2[1] => w1[2] = w2[2]
    /\ Len(appenders) = Len(all_outputs)
    /\ \A i \in DOMAIN appenders : appenders[i] = "main"

C4_Witness ==
    /\ Cardinality(writers) = Cardinality(Tasks)
    /\ Cardinality(Running) = max_workers
    /\ Len(all_outputs) >= 1

====
